---- MODULE Spec2Model ----
(***************************************************************************)
(* Model of the alt-text workflows of src/src/index.ts (second revision of *)
(* the file, lines 1898-4282): generateAltText (page), generateImageAltText*)
(* (image) and generateCombinedAltText (combined), with the fan-out /      *)
(* fan-in of processCandidateImages modelled task by task.                 *)
(*                                                                         *)
(* Scores are rationals in the code (area / 10000, size / 100000).  They   *)
(* are kept exact here by counting in units of 1/ScoreScale of a point.    *)
(***************************************************************************)
EXTENDS Integers, Sequences, FiniteSets, TLC

\* ------------------------------------------------------------------ bounds
\* longest list of images harvested from one page
MaxImages == 2

\* ------------------------------------------------------- program constants
MaxCandidates == 3
FallbackCap == 50
AreaDivisor == 10000
SizeDivisor == 100000
IconArea == 10000
IconSide == 100
IconSingleSide == 200
CostExtractResponseText == 1
CostHtmlExtractText == 1
CostExtractImages == 5
CostFilterCandidateImages == 1
CostBuildUserPrompt == 1
CostLlmPredict == 100
CostLlmVision == 200
CostProcessCandidateImages == 250
SmallDataUri == 1000
XDescriptorWeight == 100
TextLimit == 8000

\* one score point, in the unit the model counts scores in: the larger of the
\* two divisors of the fallback formula, so that both quotients are integers
ScoreScale == SizeDivisor

\* ---------------------------------------------------------- JS-like values
\* "undefined" for a number (every real width, height, size, fuel is >= 0)
UndefNum == 0 - 1
\* "undefined" for a string that is only tested for truthiness
UndefStr == "<undefined>"

TruthyStr(s) == s # UndefStr /\ s # ""
TruthyNum(n) == n # UndefNum /\ n # 0

\* a || b on strings that are only tested for truthiness
OrStr(a, b) == IF TruthyStr(a) THEN a ELSE b

\* Values whose text is inspected (trimmed): a tagged sequence of characters.
Undef == [t |-> "undefined", s |-> <<>>]
NonString == [t |-> "number", s |-> <<>>]
Str(s) == [t |-> "string", s |-> s]

Truthy(v) == v.t = "number" \/ (v.t = "string" /\ v.s # <<>>)

IsSpace(c) == c = " "

RECURSIVE TrimStart(_)
TrimStart(s) ==
  IF s = <<>> THEN s
  ELSE IF IsSpace(Head(s)) THEN TrimStart(Tail(s)) ELSE s

RECURSIVE TrimEnd(_)
TrimEnd(s) ==
  IF s = <<>> THEN s
  ELSE IF IsSpace(s[Len(s)]) THEN TrimEnd(SubSeq(s, 1, Len(s) - 1)) ELSE s

\* String.prototype.trim
Trim(s) == TrimEnd(TrimStart(s))

UnableAltText ==
  << "U","n","a","b","l","e"," ","t","o"," ","g","e","n","e","r","a","t","e",
     " ","a","l","t","-","t","e","x","t" >>
UnableTopic ==
  << "U","n","a","b","l","e"," ","t","o"," ","d","e","t","e","r","m","i","n",
     "e"," ","t","o","p","i","c" >>

\* (FinalTextNoTrimCheck: FinalText without the test of the trimmed value)
FinalTextNoTrimCheck(v, placeholder) ==
  IF Truthy(v) /\ v.t = "string" THEN Str(Trim(v.s)) ELSE Str(placeholder)
\* index.ts 2849-2854: the value if it is a non-blank string, trimmed; else
\* the placeholder
FinalText(v, placeholder) ==
  IF Truthy(v) /\ v.t = "string" /\ Trim(v.s) # <<>>
  THEN Str(Trim(v.s))
  ELSE Str(placeholder)

\* index.ts 4204-4205: altText || placeholder
OrPlaceholder(v, placeholder) == IF Truthy(v) THEN v ELSE Str(placeholder)

Min(a, b) == IF a <= b THEN a ELSE b

\* ------------------------------------------------------------ image records
\* index.ts 2061-2075 (inline tags): area is width * height when both are
\* truthy, undefined otherwise; size is not known before the fetch
AreaOf(width, height) ==
  IF TruthyNum(width) /\ TruthyNum(height) THEN width * height ELSE UndefNum

ImageInfo(url, width, height, alt) ==
  [url |-> url, width |-> width, height |-> height, alt |-> alt,
   area |-> AreaOf(width, height), size |-> UndefNum]

\* The images a page may carry: markup attributes, and the number of bytes the
\* server holds under the URL (what a successful fetch returns).
Resources ==
  { [url |-> "hero.jpg",   width |-> 801,      height |-> 400,      alt |-> "Hero",      bytes |-> 200000],
    [url |-> "banner.png", width |-> 1000,     height |-> 1000,     alt |-> UndefStr,    bytes |-> 300000],
    [url |-> "photo.webp", width |-> UndefNum, height |-> UndefNum, alt |-> "",          bytes |-> 6000000],
    [url |-> "wide.gif",   width |-> 300,      height |-> UndefNum, alt |-> "Wide",      bytes |-> 250000],
    [url |-> "empty.png",  width |-> UndefNum, height |-> UndefNum, alt |-> UndefStr,    bytes |-> 0],
    [url |-> "logo.svg",   width |-> 20,       height |-> 20,       alt |-> "Logo",      bytes |-> 900] }

Urls == { r.url : r \in Resources }
BytesAt(url) == (CHOOSE r \in Resources : r.url = url).bytes
HarvestedImage(url) ==
  LET r == CHOOSE x \in Resources : x.url = url
  IN  ImageInfo(r.url, r.width, r.height, r.alt)

\* harvest results of the pages the workflows are run on: pages that carry
\* each of their images once, so that a URL names one candidate
UrlLists ==
  { s \in UNION { [1..n -> Urls] : n \in 0..MaxImages } :
      \A i, j \in DOMAIN s : i # j => s[i] # s[j] }

Range(s) == { s[i] : i \in DOMAIN s }

RECURSIVE SelectSeq2(_, _)
\* Array.prototype.filter with a predicate given as a set of kept indices
SelectSeq2(s, keep) ==
  IF s = <<>> THEN <<>>
  ELSE LET n == Len(s)
           front == SelectSeq2(SubSeq(s, 1, n - 1), keep)
       IN  IF n \in keep THEN Append(front, s[n]) ELSE front

\* ---------------------------------------------------- extractImagesFromHTML
\* Markup is a tagged value whose text, when it is a string, is a sequence of
\* elements.  The elements the harvest looks at are <img> tags and <picture>
\* blocks; an attribute that is absent is UndefStr / UndefNum / <<>>.
ImgTag(src, dataSrc, srcset, width, height, alt) ==
  [kind |-> "img", src |-> src, dataSrc |-> dataSrc, srcset |-> srcset,
   width |-> width, height |-> height, alt |-> alt]
\* sources: the srcset of each <source>; img: the first <img> inside, if any
Picture(sources, img) == [kind |-> "picture", sources |-> sources, img |-> img]

\* One entry "url descriptor" of a srcset.  The descriptor is a number (kept
\* in tenths, so that 1.5x is 15) with suffix w or x, a bare number, or
\* missing.
SrcsetEntry(url, kind, tenths) == [url |-> url, kind |-> kind, tenths |-> tenths]

\* The URL references that occur in the markup: what new URL(ref, baseUrl).href
\* makes of each under the base PageUrl, whether the reference matches an
\* icon / sprite / tracking-pixel name, and its length if it is a data URI
\* (0 otherwise).
References ==
  { [ref |-> "a.jpg",     href |-> "https://x.test/a.jpg",     icon |-> FALSE, data |-> 0],
    [ref |-> "./a.jpg",   href |-> "https://x.test/a.jpg",     icon |-> FALSE, data |-> 0],
    [ref |-> "b.jpg",     href |-> "https://x.test/b.jpg",     icon |-> FALSE, data |-> 0],
    [ref |-> "small.jpg", href |-> "https://x.test/small.jpg", icon |-> FALSE, data |-> 0],
    [ref |-> "/icon/i.png", href |-> "https://x.test/icon/i.png", icon |-> TRUE, data |-> 0],
    [ref |-> "data:image/gif;base64,R0lGOD", href |-> "data:image/gif;base64,R0lGOD",
     icon |-> FALSE, data |-> 28] }
ReferenceOf(ref) == CHOOSE r \in References : r.ref = ref

\* index.ts 1953-1959: resolveUrl
resolveUrl(url, baseUrl) ==
  IF baseUrl = "https://x.test" THEN ReferenceOf(url).href ELSE url

\* parseInt of a descriptor: the digits before the first non-digit
ParseInt(entry) == entry.tenths \div 10

\* (SrcsetSizeWidthFirst: SrcsetSize, were every w-descriptor to outweigh
\* every x-descriptor)
SrcsetSizeWidthFirst(entry) ==
  IF entry.kind = "none" THEN 0
  ELSE IF entry.kind = "w" /\ ParseInt(entry) > 0 THEN 1000000 + ParseInt(entry)
  ELSE IF entry.kind = "x" THEN ParseInt(entry) * XDescriptorWeight
  ELSE ParseInt(entry)
\* index.ts 2043-2053: the size of a srcset entry of an <img>
SrcsetSize(entry) ==
  IF entry.kind = "none" THEN 0
  ELSE IF entry.kind = "x" THEN ParseInt(entry) * XDescriptorWeight
  ELSE ParseInt(entry)

\* index.ts 2116: the size of a srcset entry of a <source>
SourceSize(entry) == IF entry.kind = "none" THEN 0 ELSE ParseInt(entry)

\* index.ts 2039-2058, 2113-2121: the scan of the entries of one srcset, which
\* keeps the first entry of the largest size above largestSize
RECURSIVE LargestEntry(_, _, _, _)
LargestEntry(entries, sizes, largestSize, largestUrl) ==
  IF entries = <<>> THEN [size |-> largestSize, url |-> largestUrl]
  ELSE IF Head(sizes) > largestSize
       THEN LargestEntry(Tail(entries), Tail(sizes), Head(sizes), Head(entries).url)
       ELSE LargestEntry(Tail(entries), Tail(sizes), largestSize, largestUrl)

\* index.ts 1989-1996, 2095: src, else data-src
SrcOf(tag) == IF TruthyStr(tag.src) THEN tag.src ELSE tag.dataSrc

\* index.ts 2004-2007, 2099
IsSmallDataUri(src) ==
  ReferenceOf(src).data > 0 /\ ReferenceOf(src).data < SmallDataUri

\* index.ts 1985-2078: what the pass over the <img> tags pushes for one tag
InlineImage(tag, baseUrl) ==
  LET src == SrcOf(tag)
      sizes == [i \in DOMAIN tag.srcset |-> SrcsetSize(tag.srcset[i])]
      largest == LargestEntry(tag.srcset, sizes, 0, src)
  IN  IF ~TruthyStr(src) THEN <<>>
      ELSE IF IsSmallDataUri(src) THEN <<>>
      ELSE IF ReferenceOf(src).icon THEN <<>>
      ELSE << ImageInfo(resolveUrl(largest.url, baseUrl),
                        tag.width, tag.height, tag.alt) >>

\* index.ts 2104-2123: the scan of the <source> elements of one <picture>
RECURSIVE BestSource(_, _, _)
BestSource(sources, bestSize, bestUrl) ==
  IF sources = <<>> THEN [size |-> bestSize, url |-> bestUrl]
  ELSE LET srcset == Head(sources)
           sizes == [i \in DOMAIN srcset |-> SourceSize(srcset[i])]
           best == LargestEntry(srcset, sizes, bestSize, bestUrl)
       IN  BestSource(Tail(sources), best.size, best.url)

\* index.ts 2087-2142: what the pass over the <picture> blocks pushes for one
\* block
PictureImage(picture, baseUrl) ==
  IF picture.img = <<>> THEN <<>>
  ELSE LET tag == picture.img[1]
           src == SrcOf(tag)
       IN  IF ~TruthyStr(src) THEN <<>>
           ELSE IF IsSmallDataUri(src) THEN <<>>
           ELSE << ImageInfo(resolveUrl(BestSource(picture.sources, 0, src).url, baseUrl),
                             tag.width, tag.height, tag.alt) >>

\* the <img> tags of the markup in document order, those inside a <picture>
\* included (the regular expression of the first pass matches both)
RECURSIVE ImgTags(_)
ImgTags(elements) ==
  IF elements = <<>> THEN <<>>
  ELSE LET e == Head(elements)
       IN  (IF e.kind = "img" THEN << e >>
            ELSE IF e.kind = "picture" THEN e.img
            ELSE <<>>) \o ImgTags(Tail(elements))

RECURSIVE InlinePass(_, _)
InlinePass(tags, baseUrl) ==
  IF tags = <<>> THEN <<>>
  ELSE InlineImage(Head(tags), baseUrl) \o InlinePass(Tail(tags), baseUrl)

RECURSIVE PicturePass(_, _)
PicturePass(elements, baseUrl) ==
  IF elements = <<>> THEN <<>>
  ELSE (IF Head(elements).kind = "picture"
        THEN PictureImage(Head(elements), baseUrl)
        ELSE <<>>) \o PicturePass(Tail(elements), baseUrl)

\* index.ts 1965-2145
extractImagesFromHTML(markup, baseUrl) ==
  IF ~Truthy(markup) \/ markup.t # "string" THEN <<>>
  ELSE InlinePass(ImgTags(markup.s), baseUrl) \o PicturePass(markup.s, baseUrl)

\* ------------------------------------------------------ extractTextFromHTML
\* For the text extraction the elements of a markup are runs of characters:
\* n characters of text, n white-space characters, a tag, a <script> or
\* <style> block with n characters inside, a character entity.  The text
\* extracted is a sequence of runs of text and of spaces.
TextRun(n) == [kind |-> "text", n |-> n]
SpaceRun(n) == [kind |-> "space", n |-> n]
Tag == [kind |-> "tag"]
ScriptBlock(n) == [kind |-> "script", n |-> n]
StyleBlock(n) == [kind |-> "style", n |-> n]
Entity(name) == [kind |-> "entity", name |-> name]
\* one of the characters < > & " ' standing for itself
Char(c) == [kind |-> "char", c |-> c, n |-> 1]
\* the characters that follow the & of an entity, the semicolon included
\* (lt; is three characters), of which a cut may have left only the first n
NameLength(name) ==
  CASE name = "nbsp" -> 5
    [] name = "amp" -> 4
    [] name = "lt" -> 3
    [] name = "gt" -> 3
    [] name = "quot" -> 5
    [] name = "#39" -> 4
Name(name) == [kind |-> "name", name |-> name, n |-> NameLength(name)]

\* index.ts 1928-1929: the script and style blocks are removed; what is left
\* is read as characters: an entity is its & and its name
RECURSIVE WithoutScripts(_)
WithoutScripts(elements) ==
  IF elements = <<>> THEN <<>>
  ELSE LET e == Head(elements)
           rest == WithoutScripts(Tail(elements))
       IN  IF e.kind \in {"script", "style"} THEN rest
           ELSE IF e.kind = "entity" THEN << Char("&"), Name(e.name) >> \o rest
           ELSE << e >> \o rest

\* the elements that hold a > : the character itself and the tags
HoldsClosing(e) == e = Char(">") \/ e.kind \in {"tag", "img", "picture"}

\* the spaces that the tags of an element become, the first of them apart:
\* a <picture> block is its own two tags, its <source> tags and its <img>
FurtherTags(e) ==
  IF e.kind = "picture" THEN << SpaceRun(1 + Len(e.sources) + Len(e.img)) >>
  ELSE <<>>

\* index.ts 1932: replace(/<[^>]+>/g, ' ') -- a tag becomes a space, and so
\* does a < with what follows it up to the first >, when there is a
\* character between the two
RECURSIVE StripTags(_)
StripTags(elements) ==
  IF elements = <<>> THEN <<>>
  ELSE LET e == Head(elements)
           rest == Tail(elements)
           closing == { j \in 1..Len(rest) : HoldsClosing(rest[j]) }
           first == CHOOSE j \in closing : \A k \in closing : j <= k
       IN  IF e.kind \in {"tag", "img", "picture"}
           THEN << SpaceRun(1) >> \o FurtherTags(e) \o StripTags(rest)
           ELSE IF e = Char("<") /\ closing # {}
                   /\ ~(first = 1 /\ rest[1] = Char(">"))
           THEN << SpaceRun(1) >> \o FurtherTags(rest[first])
                  \o StripTags(SubSeq(rest, first + 1, Len(rest)))
           ELSE << e >> \o StripTags(rest)

\* index.ts 1936-1941: what each entity of the list is replaced with
DecodedRun(name) ==
  CASE name = "nbsp" -> SpaceRun(1)
    [] name = "amp" -> Char("&")
    [] name = "lt" -> Char("<")
    [] name = "gt" -> Char(">")
    [] name = "quot" -> Char("\"")
    [] name = "#39" -> Char("'")

\* one replace(/&name;/g, ...) of index.ts 1936-1941: every & followed by
\* the whole name, from the left, what is put in not being read again
RECURSIVE Decode(_, _)
Decode(runs, name) ==
  IF Len(runs) < 2 THEN runs
  ELSE IF runs[1] = Char("&") /\ runs[2] = Name(name)
       THEN << DecodedRun(name) >> \o Decode(SubSeq(runs, 3, Len(runs)), name)
       ELSE << Head(runs) >> \o Decode(Tail(runs), name)

\* index.ts 1935-1941: the six replacements, in the order of the code
DecodeEntities(runs) ==
  Decode(Decode(Decode(Decode(Decode(Decode(runs,
    "nbsp"), "amp"), "lt"), "gt"), "quot"), "#39")

\* index.ts 1928-1941
Replaced(elements) == DecodeEntities(StripTags(WithoutScripts(elements)))

\* index.ts 1944: replace(/\s+/g, ' ').trim() -- every run of white space
\* becomes one space, those at the two ends none; acc is the text so far
RECURSIVE NormalizeWhitespace(_, _)
NormalizeWhitespace(runs, acc) ==
  IF runs = <<>>
  THEN IF acc # <<>> /\ acc[Len(acc)].kind = "space"
       THEN SubSeq(acc, 1, Len(acc) - 1)
       ELSE acc
  ELSE LET r == Head(runs)
           last == acc[Len(acc)]
       IN  IF r.n = 0 THEN NormalizeWhitespace(Tail(runs), acc)
           ELSE IF r.kind = "space"
           THEN IF acc = <<>> \/ last.kind = "space"
                THEN NormalizeWhitespace(Tail(runs), acc)
                ELSE NormalizeWhitespace(Tail(runs), Append(acc, SpaceRun(1)))
           ELSE IF acc # <<>> /\ last.kind = "text" /\ r.kind = "text"
                THEN NormalizeWhitespace(Tail(runs),
                       [acc EXCEPT ![Len(acc)] = TextRun(last.n + r.n)])
                ELSE NormalizeWhitespace(Tail(runs), Append(acc, r))

RECURSIVE TextLength(_)
TextLength(runs) ==
  IF runs = <<>> THEN 0 ELSE Head(runs).n + TextLength(Tail(runs))

\* (SubstringSkipped: Substring, were the text returned whole)
SubstringSkipped(runs, n) == runs
\* String.prototype.substring(0, n)
RECURSIVE Substring(_, _)
Substring(runs, n) ==
  IF runs = <<>> \/ n <= 0 THEN <<>>
  ELSE IF Head(runs).n >= n THEN << [Head(runs) EXCEPT !.n = n] >>
  ELSE << Head(runs) >> \o Substring(Tail(runs), n - Head(runs).n)

\* (ExtractDecodingLast: extractTextFromHTML, were the entities decoded
\* after the white space is normalised instead of before)
ExtractDecodingLast(markup) ==
  IF ~Truthy(markup) \/ markup.t # "string" THEN Str(<<>>)
  ELSE Str(Substring(
         DecodeEntities(
           NormalizeWhitespace(StripTags(WithoutScripts(markup.s)), <<>>)),
         TextLimit))
\* index.ts 1921-1948
extractTextFromHTML(markup) ==
  IF ~Truthy(markup) \/ markup.t # "string" THEN Str(<<>>)
  ELSE Str(Substring(NormalizeWhitespace(Replaced(markup.s), <<>>), TextLimit))

\* ---------------------------------------------------- filterCandidateImages
\* (IsCandidateAboveTen: IsCandidate with the thresholds 100 for the area
\* and 10 for a side)
IsCandidateAboveTen(img) ==
  \/ TruthyNum(img.area) /\ img.area > 100
  \/ TruthyNum(img.width) /\ TruthyNum(img.height)
       /\ img.width > 10 /\ img.height > 10
  \/ TruthyNum(img.width) /\ img.width > 10
  \/ TruthyNum(img.height) /\ img.height > 10
  \/ ~TruthyNum(img.width) /\ ~TruthyNum(img.height)
\* index.ts 2189-2200: the inclusion rule
IsCandidate(img) ==
  \/ TruthyNum(img.area) /\ img.area > IconArea
  \/ TruthyNum(img.width) /\ TruthyNum(img.height)
       /\ img.width > IconSide /\ img.height > IconSide
  \/ TruthyNum(img.width) /\ img.width > IconSingleSide
  \/ TruthyNum(img.height) /\ img.height > IconSingleSide
  \/ ~TruthyNum(img.width) /\ ~TruthyNum(img.height)

\* index.ts 2203-2211: the comparator of the sort (negative: a first)
CompareImages(a, b) ==
  IF TruthyNum(a.area) /\ TruthyNum(b.area) THEN b.area - a.area
  ELSE IF TruthyNum(a.area) THEN 0 - 1
  ELSE IF TruthyNum(b.area) THEN 1
  ELSE IF TruthyNum(a.width) /\ TruthyNum(b.width) THEN b.width - a.width
  ELSE IF TruthyNum(a.width) THEN 0 - 1
  ELSE IF TruthyNum(b.width) THEN 1
  ELSE 0

RECURSIVE InsertSorted(_, _)
\* stable insertion: x goes after every element that does not compare after it
InsertSorted(s, x) ==
  IF s = <<>> THEN <<x>>
  ELSE IF CompareImages(x, Head(s)) < 0 THEN <<x>> \o s
  ELSE <<Head(s)>> \o InsertSorted(Tail(s), x)

\* (SortSkipped: SortImages, were the candidates left in input order)
SortSkipped(s) == s
RECURSIVE SortImages(_)
\* Array.prototype.sort (stable) under CompareImages
SortImages(s) ==
  IF s = <<>> THEN <<>>
  ELSE InsertSorted(SortImages(SubSeq(s, 1, Len(s) - 1)), s[Len(s)])

\* Array.prototype.slice(0, n)
Take(s, n) == SubSeq(s, 1, Min(n, Len(s)))

\* index.ts 2187-2214
filterCandidateImages(images, maxCandidates) ==
  Take(SortImages(SelectSeq(images, IsCandidate)), maxCandidates)

\* ------------------------------------------------------------ score stage
\* (FallbackUncapped: FallbackScore without Math.min)
FallbackUncapped(img) ==
  IF TruthyNum(img.area) THEN img.area * (ScoreScale \div AreaDivisor)
  ELSE IF TruthyNum(img.size) THEN img.size * (ScoreScale \div SizeDivisor)
  ELSE 0
\* (FallbackCappedAtHundred: FallbackScore with the cap at the top of the
\* score range instead of FallbackCap)
FallbackCappedAtHundred(img) ==
  IF TruthyNum(img.area)
  THEN Min(2 * FallbackCap * ScoreScale, img.area * (ScoreScale \div AreaDivisor))
  ELSE IF TruthyNum(img.size)
  THEN Min(2 * FallbackCap * ScoreScale, img.size * (ScoreScale \div SizeDivisor))
  ELSE 0
\* index.ts 3842-3843 (and 3805-3806): the fallback score, in 1/ScoreScale
\* points.  area / 10000 and size / 100000 are exact in this unit.
FallbackScore(img) ==
  IF TruthyNum(img.area)
  THEN Min(FallbackCap * ScoreScale, img.area * (ScoreScale \div AreaDivisor))
  ELSE IF TruthyNum(img.size)
  THEN Min(FallbackCap * ScoreScale, img.size * (ScoreScale \div SizeDivisor))
  ELSE 0

\* index.ts 3946-3951: the fallback of the scoreImageInterestingness atom
AtomFallbackScore(imageInfo) ==
  IF TruthyNum(imageInfo.area)
  THEN Min(FallbackCap * ScoreScale, imageInfo.area * (ScoreScale \div AreaDivisor))
  ELSE IF TruthyNum(imageInfo.size)
  THEN Min(FallbackCap * ScoreScale, imageInfo.size * (ScoreScale \div SizeDivisor))
  ELSE 0

\* What the vision call of one scoring task may do.  "throw": the call
\* rejects (connection, HTTP error, timeout); "badjson": content that
\* JSON.parse rejects; "noscore": valid JSON with no (or a falsy) score;
\* "score": valid JSON carrying the number v.
VisionScores == { 0 - 5, 80, 150 }
VisionOutcomes ==
  { [kind |-> "throw", v |-> 0], [kind |-> "badjson", v |-> 0],
    [kind |-> "noscore", v |-> 0] }
  \cup { [kind |-> "score", v |-> n] : n \in VisionScores }

\* index.ts 3803-3808: the capabilities may also lack predictWithVision
\* ("absent"), for all the tasks of a run
ScoringOutcomes == VisionOutcomes \cup { [kind |-> "absent", v |-> 0] }

\* index.ts 3802-3845: the score one task returns for img under outcome o
ScoreOfTask(img, o) ==
  IF o.kind \in {"absent", "throw", "badjson"} THEN FallbackScore(img)
  ELSE IF o.kind = "noscore" THEN 0
  ELSE o.v * ScoreScale

\* (MostInterestingLastWins: MostInteresting with >= in place of >)
RECURSIVE MostInterestingLastWins(_, _, _)
MostInterestingLastWins(list, best, i) ==
  IF i > Len(list) THEN best
  ELSE MostInterestingLastWins(list,
                               IF list[i].score >= list[best].score THEN i ELSE best,
                               i + 1)
\* index.ts 2314-2316, 2709-2711: reduce with a strictly-greater comparison;
\* the index of the winner in a non-empty list
RECURSIVE MostInteresting(_, _, _)
MostInteresting(list, best, i) ==
  IF i > Len(list) THEN best
  ELSE MostInteresting(list,
                       IF list[i].score > list[best].score THEN i ELSE best,
                       i + 1)

\* --------------------------------------------------- the model capability
\* createCustomCapabilities(llmBaseUrl).llm: predict and predictWithVision.
\* A text is known by the phrases that the code looks for in it
\* (String.includes) and that are found in it.
ErrorPrefix(capability) ==
  IF capability = "predict" THEN "LLM Error:" ELSE "LLM Vision Error:"
FailedPrefix(capability) ==
  IF capability = "predict" THEN "LLM Connection Failed:"
  ELSE "LLM Vision Connection Failed:"

\* an Error: the code and the name that the runtime gave it (none for the
\* errors this code makes), the headline of its message when this code wrote
\* it, and the phrases in its message
ErrorOf(code, name, headline, message) ==
  [kind |-> "error", code |-> code, name |-> name, headline |-> headline,
   message |-> message]

\* response.ok
Ok(response) == response.status \in 200..299

\* (StatusErrorStatusFirst: StatusError, were the status looked at before
\* the body)
StatusErrorStatusFirst(capability, llmBaseUrl, response) ==
  LET errorText == response.body.head \cup response.body.rest
      made(headline, phrases) ==
        ErrorOf("", "Error", headline, {ErrorPrefix(capability)} \cup phrases)
  IN  IF response.status = 401
      THEN made("Authentication failed", llmBaseUrl)
      ELSE IF response.status = 404
           THEN made("Endpoint not found", llmBaseUrl)
      ELSE IF response.status = 429 THEN made("Rate limit exceeded", {})
      ELSE IF response.status >= 500 THEN made("Server error", llmBaseUrl)
      ELSE IF "No models loaded" \in errorText THEN made("No model loaded", {})
      ELSE made("status", llmBaseUrl \cup response.body.head)
\* index.ts 2965-3000 (3141-3176 for predictWithVision): the Error made for
\* a response that is not OK; body.head is the phrases in the first 200
\* characters of the body, body.rest those after them
StatusError(capability, llmBaseUrl, response) ==
  LET errorText == response.body.head \cup response.body.rest
      made(headline, phrases) ==
        ErrorOf("", "Error", headline, {ErrorPrefix(capability)} \cup phrases)
  IN  IF "No models loaded" \in errorText THEN made("No model loaded", {})
      ELSE IF response.status = 401
           THEN made("Authentication failed", llmBaseUrl)
      ELSE IF response.status = 404
           THEN made("Endpoint not found", llmBaseUrl)
      ELSE IF response.status = 429 THEN made("Rate limit exceeded", {})
      ELSE IF response.status >= 500 THEN made("Server error", llmBaseUrl)
      ELSE made("status", llmBaseUrl \cup response.body.head)

\* index.ts 3005-3096 (3181-3272): the catch block around the whole call
Caught(capability, llmBaseUrl, error) ==
  LET errorCode == error.code
      errorMessage == error.message
      failed(headline, phrases) ==
        ErrorOf("", "Error", headline, {FailedPrefix(capability)} \cup phrases)
  IN  IF errorCode = "ECONNREFUSED" \/ "ECONNREFUSED" \in errorMessage
      THEN failed("Cannot connect", llmBaseUrl)
      ELSE IF \/ errorCode = "ENOTFOUND"
              \/ "ENOTFOUND" \in errorMessage
              \/ "getaddrinfo" \in errorMessage
      THEN failed("Cannot resolve", llmBaseUrl)
      ELSE IF \/ errorCode = "ETIMEDOUT"
              \/ "timeout" \in errorMessage
              \/ "TIMEDOUT" \in errorMessage
      THEN failed("Request timed out", llmBaseUrl)
      ELSE IF errorCode = "ECONNRESET" \/ "ECONNRESET" \in errorMessage
      THEN failed("Connection was reset", llmBaseUrl)
      ELSE IF error.name = "AbortError" \/ "aborted" \in errorMessage
      THEN failed("Request was aborted", llmBaseUrl)
      ELSE IF "fetch failed" \in errorMessage \/ "Failed to fetch" \in errorMessage
      THEN failed("Network request failed", llmBaseUrl)
      ELSE IF \/ ErrorPrefix(capability) \in errorMessage
              \/ FailedPrefix(capability) \in errorMessage
      THEN error
      ELSE failed("generic", errorMessage \cup llmBaseUrl)

\* index.ts 3003-3004: response.json() and data.choices[0]?.message ??
\* { content: '' }; data is what the body of an OK response parses to
Message(data) ==
  [kind |-> "message",
   content |-> IF data = "message" THEN "content" ELSE ""]

\* index.ts 2931-3097, 3098-3273: the call from the fetch on
predict(capability, llmBaseUrl, fetched) ==
  IF fetched.kind = "error" THEN Caught(capability, llmBaseUrl, fetched)
  ELSE IF ~Ok(fetched)
       THEN Caught(capability, llmBaseUrl,
                   StatusError(capability, llmBaseUrl, fetched))
  ELSE IF fetched.data = "not JSON"
       THEN Caught(capability, llmBaseUrl, ErrorOf("", "SyntaxError", "", {}))
  ELSE IF fetched.data = "no choices"
       THEN Caught(capability, llmBaseUrl, ErrorOf("", "TypeError", "", {}))
  ELSE Message(fetched.data)

\* ----------------------------------------------------------- ErrorClassifier
\* spec.md 4.8: classifyHttpStatus(status, url) gives the kind of a page
\* fetch that was answered with an error status.  Of its decision table the
\* specification gives the kinds and the entry for 404; the other entries
\* are left open.
FetchKinds ==
  {"dns_error", "connection_refused", "timeout", "ssl_error", "blocked",
   "not_found", "http_error", "unknown"}
classifyHttpStatus(status) ==
  IF status = 404 THEN {"not_found"} ELSE FetchKinds

\* ------------------------------------------------------------------ state
VARIABLES
  wf,               \* which exported function runs: "page" | "image" | "combined"
  pc,               \* position in it
  pageContext,      \* the context handed to the score stage
  pipelineOk,       \* pipelineResult is defined (the first vm.run returned)
  images,           \* pipelineResult.result.images / the VM's 'images'
  pageAltText,      \* local of generateCombinedAltText
  pageTopic,        \* local of generateCombinedAltText
  fuelUsed,         \* local of generateCombinedAltText
  candidates,       \* the filtered candidates (size is set by the fetch task)
  tasks,            \* per candidate: state of its fetch task and score task
  scoredCandidates, \* what processCandidateImages returned
  imageResult,      \* local of generateCombinedAltText
  result,           \* the record the function returned
  thrown,           \* the exception the function rejected with ("" if none)
  fuelSpent,        \* fuel each VM run has metered so far
  vmErr,            \* what each VM run threw ("" if it did not throw)
  html,             \* the markup handed to extractImagesFromHTML / extractTextFromHTML
  text,             \* what extractTextFromHTML returned
  limit,            \* the maxCandidates handed to filterCandidateImages
  settled,          \* history: the tasks of each Promise.all batch, in the
                    \* order in which they settled (kept by OrderSpec only)
  call,             \* what a call of the model capability is made with and
                    \* what its fetch gives
  outcome,          \* what that call returned or threw
  summary,          \* result.result of the VM run of generateAltText
  queryHistory,     \* server: the entries kept, each the number of its
                    \* addition (1 for the first entry ever added)
  inFlight,         \* server: POST /api/process requests being handled
  batteries,        \* the module's shared capabilities object
  invocations       \* concurrent invocations of generateCombinedAltText:
                    \* the locals of each

vars ==
  << wf, pc, pageContext, pipelineOk, images, pageAltText, pageTopic, fuelUsed,
     candidates, tasks, scoredCandidates, imageResult, result, thrown,
     fuelSpent, vmErr, html, text, limit, settled, call, outcome, summary,
     queryHistory, inFlight, batteries, invocations >>

\* the variables that only the steps named for them change
hostVars == << call, outcome, summary, queryHistory, inFlight, batteries, invocations >>

\* the capabilities object that the runtime library exports, with the
\* server that its llm capability calls
Batteries == [llm |-> [host |-> "battery", v1 |-> TRUE]]

\* server.ts 14: const queryHistory: QueryResult[] = []
NoHistory == [entries |-> <<>>, added |-> 0]

NoCall == [kind |-> "none"]
NoOutcome == [kind |-> "none"]

Workflows == {"page", "image", "combined"}

PageUrl == "https://x.test"

NoContext == [has |-> FALSE, altText |-> Undef, topic |-> Undef]
NoImageResult ==
  [has |-> FALSE, imageUrl |-> UndefStr, altText |-> UndefStr,
   description |-> UndefStr, imageWidth |-> UndefNum,
   imageHeight |-> UndefNum, imageSize |-> UndefNum]

\* A returned record.  A field that holds undefined is an absent field.  The
\* page workflow's altText/topic are kept in pageAltText/pageTopic, the image
\* workflow's altText/description in imageAltText/imageDescription.
NoResult ==
  [returned |-> FALSE, url |-> PageUrl, pageAltText |-> Undef,
   pageTopic |-> Undef, fuelUsed |-> UndefNum, imageUrl |-> UndefStr,
   imageAltText |-> UndefStr, imageDescription |-> UndefStr,
   imageWidth |-> UndefNum, imageHeight |-> UndefNum, imageSize |-> UndefNum]

\* what the page fetch may fail with, and what the text generation may fail with
FetchFailures == {"ECONNREFUSED", "ENOTFOUND", "ERR_INVALID_URL"}
ModelFailures == {"LLM Error"}
FuelExhausted == "fuel exhausted"
NoCandidates == "No candidate images found or processed"

\* the texts the page pipeline may return as altText / topic
PageTexts ==
  { Undef, NonString, Str(<<>>), Str(<<" ">>), Str(<<" ", "a", " ">>),
    Str(<<"a">>) }
PageOutputs ==
  { <<v, v>> : v \in PageTexts }
  \cup { <<Str(<<"a">>), Undef>>, <<Undef, Str(<<"t">>)>> }

\* result.result.summary.content of the page workflow's VM run, with what
\* JSON.parse makes of it: it fails, or returns an object with these altText
\* and topic, or returns null (whose .altText throws a TypeError)
NoSummaryContent ==
  [raw |-> Undef, parses |-> "fails", altText |-> Undef, topic |-> Undef]
SummaryContents ==
  { [raw |-> Str(<<"r", "a", "w">>), parses |-> "fails", altText |-> Undef,
     topic |-> Undef],
    [raw |-> Str(<<"n", "u", "l", "l">>), parses |-> "null", altText |-> Undef,
     topic |-> Undef],
    [raw |-> Str(<<"{", "}">>), parses |-> "object", altText |-> Undef,
     topic |-> Undef],
    [raw |-> Str(<<"{", "a", "t", "}">>), parses |-> "object",
     altText |-> Str(<<"a">>), topic |-> Str(<<"t">>)] }

\* what the VM run of generateAltText may return: the fields of its return
\* step, or, when the content did not give them, the content
NoSummary == [altText |-> Undef, topic |-> Undef, content |-> NoSummaryContent]
SummaryOutcomes ==
  { [altText |-> out[1], topic |-> out[2], content |-> NoSummaryContent] :
      out \in PageOutputs }
  \cup { [altText |-> Undef, topic |-> Undef, content |-> c] :
          c \in SummaryContents }

\* (SummaryAltTextAsReturned: SummaryAltText without the content fallback)
SummaryAltTextAsReturned(r) == r.altText
\* index.ts 4182-4195: altText after the content fallback
SummaryAltText(r) ==
  IF ~Truthy(r.altText) /\ Truthy(r.content.raw)
  THEN IF r.content.parses = "object" THEN r.content.altText ELSE r.content.raw
  ELSE r.altText

\* index.ts 4183-4195: topic after the content fallback
SummaryTopic(r) ==
  IF ~Truthy(r.altText) /\ Truthy(r.content.raw) /\ r.content.parses = "object"
  THEN r.content.topic
  ELSE r.topic

\* a pageContext a caller of generateImageAltText may pass
GivenContext == [has |-> TRUE, altText |-> Str(<<"a">>), topic |-> Str(<<"t">>)]

Init ==
  /\ wf \in Workflows
  /\ pc = "start"
  /\ pageContext \in (IF wf = "image" THEN {NoContext, GivenContext} ELSE {NoContext})
  /\ pipelineOk = FALSE
  /\ images = <<>>
  /\ pageAltText = Undef
  /\ pageTopic = Undef
  /\ fuelUsed = UndefNum
  /\ candidates = <<>>
  /\ tasks = <<>>
  /\ scoredCandidates = <<>>
  /\ imageResult = NoImageResult
  /\ result = NoResult
  /\ thrown = ""
  /\ fuelSpent = [page |-> 0, image |-> 0, desc |-> 0]
  /\ vmErr = [page |-> "", image |-> "", desc |-> ""]
  /\ html = Undef
  /\ text = Undef
  /\ limit = MaxCandidates
  /\ settled = [fetch |-> <<>>, score |-> <<>>]
  /\ call = NoCall
  /\ outcome = NoOutcome
  /\ summary = NoSummary
  /\ queryHistory = NoHistory
  /\ inFlight = 0
  /\ batteries = Batteries
  /\ invocations = <<>>

\* fuel the declared atom costs add up to, per pipeline stage
PageFetchCost(w) ==
  CostExtractResponseText + CostHtmlExtractText
  + (IF w \in {"image", "combined"} THEN CostExtractImages ELSE 0)
SummarizeCost == CostBuildUserPrompt + CostLlmPredict
ImagePipelineCost == CostFilterCandidateImages + CostProcessCandidateImages

\* ------------------------------------------------- the first VM run fails
\* (FirstRunThrowsPlaceholder: FirstRunThrows, were generateAltText to catch
\* the failure and return placeholders)
FirstRunThrowsPlaceholder(err) ==
  /\ vmErr' = [vmErr EXCEPT !.page = err]
  /\ IF wf = "combined"
     THEN /\ pageAltText' = Undef
          /\ pageTopic' = Undef
          /\ fuelUsed' = UndefNum
          /\ pc' = "images"
          /\ UNCHANGED << thrown, result >>
     ELSE IF wf = "page"
     THEN /\ result' = [NoResult EXCEPT !.returned = TRUE,
                                         !.pageAltText = Str(UnableAltText),
                                         !.pageTopic = Str(UnableTopic)]
          /\ pc' = "done"
          /\ UNCHANGED << thrown, pageAltText, pageTopic, fuelUsed >>
     ELSE /\ thrown' = err
          /\ pc' = "done"
          /\ UNCHANGED << pageAltText, pageTopic, fuelUsed, result >>
  /\ UNCHANGED << hostVars, wf, html, text, limit, settled, pageContext, pipelineOk, candidates, tasks,
                  scoredCandidates, imageResult >>

\* (FirstRunThrowsUncaught: FirstRunThrows without the try/catch of
\* generateCombinedAltText)
FirstRunThrowsUncaught(err) ==
  /\ vmErr' = [vmErr EXCEPT !.page = err]
  /\ thrown' = err
  /\ pc' = "done"
  /\ UNCHANGED << hostVars, wf, html, text, limit, settled, pageContext, pipelineOk, candidates, tasks,
                  scoredCandidates, imageResult, result, pageAltText,
                  pageTopic, fuelUsed >>

\* index.ts 2626-2632 (combined: caught, locals undefined), 2302-2305 (image:
\* rethrown), 4172 (page: not caught)
FirstRunThrows(err) ==
  /\ vmErr' = [vmErr EXCEPT !.page = err]
  /\ IF wf = "combined"
     THEN /\ pageAltText' = Undef
          /\ pageTopic' = Undef
          /\ fuelUsed' = UndefNum
          /\ pc' = "images"
          /\ UNCHANGED thrown
     ELSE /\ thrown' = err
          /\ pc' = "done"
          /\ UNCHANGED << pageAltText, pageTopic, fuelUsed >>
  /\ UNCHANGED << hostVars, wf, html, text, limit, settled, pageContext, pipelineOk, candidates, tasks,
                  scoredCandidates, imageResult, result >>

\* httpFetch of the page fails, or the budget runs out in the first atoms
PageFetchFail ==
  /\ pc = "start"
  /\ \E err \in FetchFailures \cup {FuelExhausted} : FirstRunThrows(err)
  /\ UNCHANGED << images, fuelSpent >>

\* httpFetch, extractResponseText, extractImagesFromHTML, htmlExtractText
PageFetchOn(pages) ==
  /\ pc = "start"
  /\ pc' = "fetched"
  /\ IF wf = "page"
     THEN images' = <<>>
     ELSE \E urls \in pages :
            images' = [i \in DOMAIN urls |-> HarvestedImage(urls[i])]
  /\ fuelSpent' = [fuelSpent EXCEPT !.page = @ + PageFetchCost(wf)]
  /\ UNCHANGED << hostVars, wf, html, text, limit, settled, pageContext, pipelineOk, pageAltText, pageTopic,
                  fuelUsed, candidates, tasks, scoredCandidates, imageResult,
                  result, thrown, vmErr >>

PageFetchOk == PageFetchOn(UrlLists)

\* llmPredictBattery fails, or the budget runs out (page and combined)
SummarizeFail ==
  /\ pc = "fetched"
  /\ wf \in {"page", "combined"}
  /\ \E err \in ModelFailures \cup {FuelExhausted} : FirstRunThrows(err)
  /\ images' = <<>>
  /\ fuelSpent' = [fuelSpent EXCEPT !.page = @ + SummarizeCost]

\* buildUserPrompt, llmPredictBattery, jsonParse, return: the first VM run of
\* the page and combined workflows returns.
\* index.ts 2591-2594 (combined), 4182-4207 (page)
SummarizeOk ==
  /\ pc = "fetched"
  /\ wf \in {"page", "combined"}
  /\ \E r \in SummaryOutcomes :
       LET spent == fuelSpent.page + SummarizeCost IN
       /\ fuelSpent' = [fuelSpent EXCEPT !.page = spent]
       /\ pipelineOk' = TRUE
       /\ IF wf = "combined"
          THEN /\ r.content = NoSummaryContent
               /\ pageAltText' = r.altText
               /\ pageTopic' = r.topic
               /\ fuelUsed' = spent
               /\ pc' = "images"
               /\ UNCHANGED << result, summary >>
          ELSE /\ summary' = r
               /\ result' = [NoResult EXCEPT
                               !.returned = TRUE,
                               !.pageAltText =
                                  OrPlaceholder(SummaryAltText(r), UnableAltText),
                               !.pageTopic =
                                  OrPlaceholder(SummaryTopic(r), UnableTopic),
                               !.fuelUsed = spent]
               /\ pc' = "done"
               /\ UNCHANGED << pageAltText, pageTopic, fuelUsed >>
  /\ UNCHANGED << call, outcome, queryHistory, inFlight, batteries, invocations, wf, html, text, limit, settled, pageContext, images, candidates, tasks,
                  scoredCandidates, imageResult, thrown, vmErr >>

PendingTask ==
  [fetch |-> "pending", scored |-> FALSE, vision |-> "none", score |-> 0]


\* (ContextNeverPassed: CombinedContext, were the image pipeline to run
\* without the page step's texts)
ContextNeverPassed(a, t) == [has |-> FALSE, altText |-> Undef, topic |-> Undef]
\* index.ts 2653-2656: pageAltText && pageTopic ? {altText, topic} : undefined
CombinedContext(a, t) ==
  IF Truthy(a) /\ Truthy(t)
  THEN [has |-> TRUE, altText |-> a, topic |-> t]
  ELSE NoContext

\* filterCandidateImages, then processCandidateImages starts one fetch task
\* per candidate.  index.ts 2636-2657 (combined: a second VM, only when
\* images were found), 2241-2250 (image: same VM as the page fetch)
StartImagePipeline ==
  /\ \/ wf = "combined" /\ pc = "images" /\ Len(images) > 0
     \/ wf = "image" /\ pc = "fetched"
  /\ candidates' = filterCandidateImages(images, limit)
  /\ tasks' = [i \in 1..Len(candidates') |-> PendingTask]
  /\ pageContext' = IF wf = "combined"
                    THEN CombinedContext(pageAltText, pageTopic)
                    ELSE pageContext
  /\ fuelSpent' = IF wf = "combined"
                  THEN [fuelSpent EXCEPT !.image = @ + ImagePipelineCost]
                  ELSE [fuelSpent EXCEPT !.page = @ + ImagePipelineCost]
  /\ pc' = "fetching"
  /\ UNCHANGED << hostVars, wf, html, text, limit, settled, pipelineOk, images, pageAltText, pageTopic, fuelUsed,
                  scoredCandidates, imageResult, result, thrown, vmErr >>

\* index.ts 2637, 2844-2846: no images, no image pipeline
NoImagesFound ==
  /\ wf = "combined" /\ pc = "images" /\ Len(images) = 0
  /\ pc' = "finalize"
  /\ UNCHANGED << hostVars, wf, html, text, limit, settled, pageContext, pipelineOk, images, pageAltText, pageTopic,
                  fuelUsed, candidates, tasks, scoredCandidates, imageResult,
                  result, thrown, fuelSpent, vmErr >>

\* index.ts 3770-3784: one fetch task succeeds; img.size = size
ImageFetchOk(i) ==
  /\ pc = "fetching"
  /\ tasks[i].fetch = "pending"
  /\ tasks' = [tasks EXCEPT ![i].fetch = "ok"]
  /\ candidates' = [candidates EXCEPT ![i].size = BytesAt(candidates[i].url)]
  /\ UNCHANGED << hostVars, wf, html, text, limit, pc, pageContext, pipelineOk, images, pageAltText,
                  pageTopic, fuelUsed, scoredCandidates, imageResult, result,
                  thrown, fuelSpent, vmErr >>

\* index.ts 3785-3788: one fetch task fails (network error or !response.ok)
ImageFetchFail(i) ==
  /\ pc = "fetching"
  /\ tasks[i].fetch = "pending"
  /\ tasks' = [tasks EXCEPT ![i].fetch = "fail"]
  /\ UNCHANGED << hostVars, wf, html, text, limit, pc, pageContext, pipelineOk, images, pageAltText,
                  pageTopic, fuelUsed, candidates, scoredCandidates,
                  imageResult, result, thrown, fuelSpent, vmErr >>

\* index.ts 3793: indices of the candidates whose fetch succeeded
ValidCandidates == { i \in DOMAIN tasks : tasks[i].fetch = "ok" }

\* (EveryFetchSucceeded: AllFetchesSettled, were the batch to wait until
\* every candidate has delivered its bytes)
EveryFetchSucceeded == \A i \in DOMAIN tasks : tasks[i].fetch = "ok"

\* (SomeFetchSettled: AllFetchesSettled, were the batch awaited with
\* Promise.race)
SomeFetchSettled ==
  \/ tasks = <<>>
  \/ \E i \in DOMAIN tasks : tasks[i].fetch # "pending"

\* index.ts 3768-3790: Promise.all resolves when every fetch task has
\* resolved; a task resolves on success and, through its catch, on failure
AllFetchesSettled == \A i \in DOMAIN tasks : tasks[i].fetch # "pending"

\* index.ts 3768, 3793-3797: Promise.all of the fetch tasks resolves; with no
\* valid candidate the atom returns []
FetchBarrier ==
  /\ pc = "fetching"
  /\ AllFetchesSettled
  /\ pc' = IF ValidCandidates = {} THEN "vmdone" ELSE "scoring"
  /\ UNCHANGED << hostVars, wf, html, text, limit, settled, pageContext, pipelineOk, images, pageAltText, pageTopic,
                  fuelUsed, candidates, tasks, scoredCandidates, imageResult,
                  result, thrown, fuelSpent, vmErr >>

\* index.ts 3801-3846: one score task settles
ScoreTask(i) ==
  /\ pc = "scoring"
  /\ i \in ValidCandidates
  /\ ~tasks[i].scored
  /\ \E o \in VisionOutcomes :
       tasks' = [tasks EXCEPT ![i].scored = TRUE,
                              ![i].vision = o.kind,
                              ![i].score = ScoreOfTask(candidates[i], o)]
  /\ UNCHANGED << hostVars, wf, html, text, limit, pc, pageContext, pipelineOk, images, pageAltText,
                  pageTopic, fuelUsed, candidates, scoredCandidates,
                  imageResult, result, thrown, fuelSpent, vmErr >>

\* (ScoredAllOrNothing: ScoredInTaskOrder, were one failed fetch to reject
\* the whole batch)
ScoredAllOrNothing(cands, tsks) ==
  IF \E i \in DOMAIN tsks : tsks[i].fetch # "ok"
  THEN <<>>
  ELSE [i \in DOMAIN tsks |->
          [img |-> cands[i],
           imageData |-> [size |-> cands[i].size],
           score |-> tsks[i].score]]

\* (ScoredInCompletionOrder: ScoredInTaskOrder, were each score task to push
\* its entry onto a shared array when it settles)
ScoredInCompletionOrder(cands, tsks) ==
  [k \in DOMAIN settled.score |->
     [img |-> cands[settled.score[k]],
      imageData |-> [size |-> cands[settled.score[k]].size],
      score |-> tsks[settled.score[k]].score]]
\* the array Promise.all of the score tasks resolves to: one entry per valid
\* candidate, in the order of the candidates
ScoredInTaskOrder(cands, tsks) ==
  LET entries == [i \in DOMAIN tsks |->
                    [img |-> cands[i],
                     imageData |-> [size |-> cands[i].size],
                     score |-> tsks[i].score]]
  IN  SelectSeq2(entries, { i \in DOMAIN tsks : tsks[i].fetch = "ok" })

\* index.ts 3800, 3849: Promise.all of the score tasks resolves
ScoreJoin ==
  /\ pc = "scoring"
  /\ \A i \in ValidCandidates : tasks[i].scored
  /\ scoredCandidates' = ScoredInTaskOrder(candidates, tasks)
  /\ pc' = "vmdone"
  /\ UNCHANGED << hostVars, wf, html, text, limit, settled, pageContext, pipelineOk, images, pageAltText, pageTopic,
                  fuelUsed, candidates, tasks, imageResult, result, thrown,
                  fuelSpent, vmErr >>

\* (ImagePipelineThrowsUncaught: ImagePipelineThrows without the try/catch
\* around imageVm.run)
ImagePipelineThrowsUncaught ==
  /\ pc \in {"fetching", "scoring"}
  /\ \E err \in {FuelExhausted, "timeout"} :
       /\ vmErr' = IF wf = "combined"
                   THEN [vmErr EXCEPT !.image = err]
                   ELSE [vmErr EXCEPT !.page = err]
       /\ thrown' = err
       /\ pc' = "done"
  /\ UNCHANGED << hostVars, wf, html, text, limit, settled, pageContext, pipelineOk, images, pageAltText, pageTopic,
                  fuelUsed, candidates, tasks, scoredCandidates, imageResult,
                  result, fuelSpent >>

\* The VM run that holds processCandidateImages throws: the budget is
\* exhausted or the atom's timeout (120 s) expires.
\* index.ts 2834-2836 (combined: caught, no image result), 2302-2305 (image)
ImagePipelineThrows ==
  /\ pc \in {"fetching", "scoring"}
  /\ \E err \in {FuelExhausted, "timeout"} :
       IF wf = "combined"
       THEN /\ vmErr' = [vmErr EXCEPT !.image = err]
            /\ pc' = "finalize"
            /\ UNCHANGED thrown
       ELSE /\ vmErr' = [vmErr EXCEPT !.page = err]
            /\ thrown' = err
            /\ pc' = "done"
  /\ UNCHANGED << hostVars, wf, html, text, limit, settled, pageContext, pipelineOk, images, pageAltText, pageTopic,
                  fuelUsed, candidates, tasks, scoredCandidates, imageResult,
                  result, fuelSpent >>

\* --------------------------------------------------- the description stage
\* The content of a model response, with what JSON.parse makes of it.
NoContent ==
  [raw |-> UndefStr, json |-> FALSE, altText |-> UndefStr, description |-> UndefStr]
RawContent ==
  [raw |-> "A caption", json |-> FALSE, altText |-> UndefStr, description |-> UndefStr]
JsonContent ==
  [raw |-> "{altText,description}", json |-> TRUE, altText |-> "Parsed alt",
   description |-> "Parsed details"]
JsonNoAltContent ==
  [raw |-> "{}", json |-> TRUE, altText |-> UndefStr, description |-> UndefStr]

\* What the VM run of llmVisionBattery -> jsonParse -> return may do.
DescribeOutcomes ==
  { [kind |-> "throw", err |-> e, altText |-> UndefStr, description |-> UndefStr,
     content |-> NoContent] : e \in ModelFailures \cup {FuelExhausted} }
  \cup { [kind |-> "return", err |-> "", altText |-> a, description |-> d,
          content |-> NoContent] :
           a \in {UndefStr, "", "Generated alt"}, d \in {UndefStr, "Details"} }
  \cup { [kind |-> "return", err |-> "", altText |-> UndefStr,
          description |-> UndefStr, content |-> c] :
           c \in {RawContent, JsonContent, JsonNoAltContent} }

UnableImageAltText == "Unable to generate alt-text"

\* index.ts 2796-2822 (2416-2447): imageAltText and imageDescription after the
\* try/catch around altTextVm.run
DescribedAltText(o) ==
  IF o.kind = "throw" THEN UndefStr
  ELSE IF ~TruthyStr(o.altText) /\ TruthyStr(o.content.raw)
       THEN IF o.content.json THEN o.content.altText ELSE o.content.raw
       ELSE o.altText

DescribedDescription(o) ==
  IF o.kind = "throw" THEN UndefStr
  ELSE IF ~TruthyStr(o.altText) /\ TruthyStr(o.content.raw)
       THEN IF o.content.json THEN o.content.description ELSE o.description
       ELSE o.description

\* (AsIfDescribeFailureDropsImage: BuildImageResult, were a failed
\* description to drop the image)
AsIfDescribeFailureDropsImage(best, o) ==
  IF o.kind = "throw" THEN NoImageResult
  ELSE [has |-> TRUE,
        imageUrl |-> best.img.url,
        altText |-> OrStr(DescribedAltText(o), OrStr(best.img.alt, UnableImageAltText)),
        description |-> OrStr(DescribedDescription(o), UndefStr),
        imageWidth |-> best.img.width,
        imageHeight |-> best.img.height,
        imageSize |-> best.imageData.size]
\* (BuildImageResultWithoutPlaceholder: BuildImageResult, were the altText
\* altText || img.alt)
BuildImageResultWithoutPlaceholder(best, o) ==
  [has |-> TRUE,
   imageUrl |-> best.img.url,
   altText |-> OrStr(DescribedAltText(o), best.img.alt),
   description |-> OrStr(DescribedDescription(o), UndefStr),
   imageWidth |-> best.img.width,
   imageHeight |-> best.img.height,
   imageSize |-> best.imageData.size]
\* index.ts 2824-2831: imageResult
BuildImageResult(best, o) ==
  [has |-> TRUE,
   imageUrl |-> best.img.url,
   altText |-> OrStr(DescribedAltText(o), OrStr(best.img.alt, UnableImageAltText)),
   description |-> OrStr(DescribedDescription(o), UndefStr),
   imageWidth |-> best.img.width,
   imageHeight |-> best.img.height,
   imageSize |-> best.imageData.size]

\* index.ts 2705: the entries with an img and a score (every entry the atom
\* returns has both)
ValidScored(list) == SelectSeq(list, LAMBDA c : TRUE)

\* the winner of a non-empty scored list
Winner(list) == list[MostInteresting(list, 1, 2)]

\* index.ts 2449-2457: the record generateImageAltText returns
ImageWorkflowResult(ir) ==
  [NoResult EXCEPT !.returned = TRUE,
                   !.imageUrl = ir.imageUrl,
                   !.imageAltText = ir.altText,
                   !.imageDescription = ir.description,
                   !.imageWidth = ir.imageWidth,
                   !.imageHeight = ir.imageHeight,
                   !.imageSize = ir.imageSize]

\* (NoScoredCandidatesReturnsEmpty: NoScoredCandidates, were the image
\* workflow to return a record without image instead of throwing)
NoScoredCandidatesReturnsEmpty ==
  /\ pc = "vmdone"
  /\ Len(scoredCandidates) = 0
  /\ IF wf = "combined"
     THEN pc' = "finalize" /\ UNCHANGED result
     ELSE pc' = "done" /\ result' = [NoResult EXCEPT !.returned = TRUE]
  /\ UNCHANGED << hostVars, wf, html, text, limit, settled, pageContext, pipelineOk, images, pageAltText, pageTopic,
                  fuelUsed, candidates, tasks, scoredCandidates, imageResult,
                  thrown, fuelSpent, vmErr >>

\* index.ts 2699-2700 (combined: nothing to describe), 2309-2311 (image:
\* terminal failure)
NoScoredCandidates ==
  /\ pc = "vmdone"
  /\ Len(scoredCandidates) = 0
  /\ IF wf = "combined"
     THEN pc' = "finalize" /\ UNCHANGED thrown
     ELSE pc' = "done" /\ thrown' = NoCandidates
  /\ UNCHANGED << hostVars, wf, html, text, limit, settled, pageContext, pipelineOk, images, pageAltText, pageTopic,
                  fuelUsed, candidates, tasks, scoredCandidates, imageResult,
                  result, fuelSpent, vmErr >>

\* index.ts 2704-2831 (combined), 2313-2457 (image): winner selection, the
\* VM run that describes the winner, and the image result
DescribeWinner ==
  /\ pc = "vmdone"
  /\ Len(scoredCandidates) > 0
  /\ \E o \in DescribeOutcomes :
       LET best == Winner(ValidScored(scoredCandidates))
           ir == BuildImageResult(best, o)
       IN  /\ imageResult' = ir
           /\ vmErr' = [vmErr EXCEPT !.desc = o.err]
           /\ IF wf = "combined"
              THEN pc' = "finalize" /\ UNCHANGED result
              ELSE pc' = "done" /\ result' = ImageWorkflowResult(ir)
  /\ fuelSpent' = [fuelSpent EXCEPT !.desc = @ + CostLlmVision]
  /\ UNCHANGED << hostVars, wf, html, text, limit, settled, pageContext, pipelineOk, images, pageAltText, pageTopic,
                  fuelUsed, candidates, tasks, scoredCandidates, thrown >>

\* index.ts 2848-2885: the record generateCombinedAltText returns
FinalResult(a, t, used, ir) ==
  LET withImage == ir.has /\ TruthyStr(ir.imageUrl) IN
  [returned |-> TRUE,
   url |-> PageUrl,
   pageAltText |-> FinalText(a, UnableAltText),
   pageTopic |-> FinalText(t, UnableTopic),
   fuelUsed |-> used,
   imageUrl |-> IF withImage THEN ir.imageUrl ELSE UndefStr,
   imageAltText |-> IF withImage /\ TruthyStr(ir.altText) THEN ir.altText ELSE UndefStr,
   imageDescription |->
     IF withImage /\ TruthyStr(ir.description) THEN ir.description ELSE UndefStr,
   imageWidth |-> IF withImage THEN ir.imageWidth ELSE UndefNum,
   imageHeight |-> IF withImage THEN ir.imageHeight ELSE UndefNum,
   imageSize |-> IF withImage THEN ir.imageSize ELSE UndefNum]

Finalize ==
  /\ wf = "combined"
  /\ pc = "finalize"
  /\ result' = FinalResult(pageAltText, pageTopic, fuelUsed, imageResult)
  /\ pc' = "done"
  /\ UNCHANGED << hostVars, wf, html, text, limit, settled, pageContext, pipelineOk, images, pageAltText, pageTopic,
                  fuelUsed, candidates, tasks, scoredCandidates, imageResult,
                  thrown, fuelSpent, vmErr >>

Next ==
  \/ PageFetchFail
  \/ PageFetchOk
  \/ SummarizeFail
  \/ SummarizeOk
  \/ StartImagePipeline
  \/ NoImagesFound
  \/ \E i \in 1..MaxCandidates :
       i \in DOMAIN tasks /\ ImageFetchOk(i) /\ UNCHANGED settled
  \/ \E i \in 1..MaxCandidates :
       i \in DOMAIN tasks /\ ImageFetchFail(i) /\ UNCHANGED settled
  \/ FetchBarrier
  \/ \E i \in 1..MaxCandidates : ScoreTask(i) /\ UNCHANGED settled
  \/ ScoreJoin
  \/ ImagePipelineThrows
  \/ NoScoredCandidates
  \/ DescribeWinner
  \/ Finalize

Spec == Init /\ [][Next]_vars

\* --------------------------------------------------- pages with few images
OrderUrls == {"hero.jpg", "banner.png", "photo.webp"}

\* a page that carries more images than maxCandidates
FullPage == << "hero.jpg", "wide.gif", "banner.png", "photo.webp" >>

OrderPages ==
  { urls \in UrlLists : \A i \in DOMAIN urls : urls[i] \in OrderUrls }
    \cup {FullPage}

\* ------------------------------------------- the combined workflow, fair
\* CombinedSpec is generateCombinedAltText with what its awaits rely on: a
\* capability call that was issued settles (it returns or it fails, at the
\* latest by its timeout), and a continuation whose promise has settled is
\* run by the event loop.  The VM run of the image pipeline giving up (fuel,
\* atom timeout) is possible but not promised.  The pages are those of
\* OrderPages: up to MaxImages images, and one page on which the fan-out has
\* its full width of maxCandidates tasks.
CombinedInit == Init /\ wf = "combined"

CombinedNext ==
  \/ PageFetchFail
  \/ PageFetchOn(OrderPages)
  \/ SummarizeFail
  \/ SummarizeOk
  \/ StartImagePipeline
  \/ NoImagesFound
  \/ \E i \in 1..MaxCandidates :
       i \in DOMAIN tasks /\ ImageFetchOk(i) /\ UNCHANGED settled
  \/ \E i \in 1..MaxCandidates :
       i \in DOMAIN tasks /\ ImageFetchFail(i) /\ UNCHANGED settled
  \/ FetchBarrier
  \/ \E i \in 1..MaxCandidates : ScoreTask(i) /\ UNCHANGED settled
  \/ ScoreJoin
  \/ ImagePipelineThrows
  \/ NoScoredCandidates
  \/ DescribeWinner
  \/ Finalize

\* index.ts 2582 (httpFetch), 2591 (llmPredictBattery), 3771 (fetchCap),
\* 3822 (llmCap.predictWithVision), 2798 (llmVisionBattery)
CallsSettle ==
  /\ WF_vars(PageFetchOn(OrderPages) \/ PageFetchFail)
  /\ WF_vars(SummarizeOk \/ SummarizeFail)
  /\ \A i \in 1..MaxCandidates :
       WF_vars(/\ i \in DOMAIN tasks
               /\ ImageFetchOk(i) \/ ImageFetchFail(i)
               /\ UNCHANGED settled)
  /\ \A i \in 1..MaxCandidates : WF_vars(ScoreTask(i) /\ UNCHANGED settled)
  /\ WF_vars(DescribeWinner)

\* index.ts 2636-2637, 3768, 3793-3800, 3849, 2699-2700, 2848-2902: the code
\* between two awaits
ContinuationsRun ==
  WF_vars(StartImagePipeline \/ NoImagesFound \/ FetchBarrier \/ ScoreJoin
          \/ NoScoredCandidates \/ Finalize)

CombinedSpec ==
  CombinedInit /\ [][CombinedNext]_vars /\ CallsSettle /\ ContinuationsRun

\* ------------------------------------- the fan-out with its order recorded
\* OrderSpec is the image workflow (no page context given), run on pages
\* that carry images of OrderUrls, with a history of the order in which the
\* tasks of the two Promise.all batches settle.
OrderInit == Init /\ wf = "image" /\ pageContext = NoContext

OrderNext ==
  \/ PageFetchFail
  \/ PageFetchOn(OrderPages)
  \/ StartImagePipeline
  \/ \E i \in 1..MaxCandidates :
       /\ i \in DOMAIN tasks
       /\ ImageFetchOk(i)
       /\ settled' = [settled EXCEPT !.fetch = Append(@, i)]
  \/ \E i \in 1..MaxCandidates :
       /\ i \in DOMAIN tasks
       /\ ImageFetchFail(i)
       /\ settled' = [settled EXCEPT !.fetch = Append(@, i)]
  \/ FetchBarrier
  \/ \E i \in 1..MaxCandidates :
       /\ ScoreTask(i)
       /\ settled' = [settled EXCEPT !.score = Append(@, i)]
  \/ ScoreJoin
  \/ ImagePipelineThrows
  \/ NoScoredCandidates
  \/ DescribeWinner

OrderSpec == OrderInit /\ [][OrderNext]_vars

\* ------------------------------------------------ the functions on their own
\* filterCandidateImages, extractImagesFromHTML and extractTextFromHTML are
\* pure.  FunctionsSpec calls each of them once on an input drawn from a
\* bounded set: wf names the function, pc is "start" before the call and
\* "returned" after it.
Functions ==
  {"filterCandidateImages", "extractImagesFromHTML", "extractTextFromHTML",
   "predict", "classifyHttpStatus", "scoreTask"}

\* longest list handed to filterCandidateImages
MaxFilterInput == 3

\* Images as extractImagesFromHTML produces them (area from width and
\* height, no size), around the thresholds of the filter.
Logo20 == ImageInfo("logo.svg", 20, 20, "Logo")
Hero800 == ImageInfo("hero.jpg", 800, 400, "Hero")
FilterImages ==
  { Logo20, Hero800,
    ImageInfo("tall.jpg", 400, 800, "Tall"),
    ImageInfo("thin.png", 150, 30, UndefStr),
    ImageInfo("wide.gif", 300, UndefNum, "Wide"),
    ImageInfo("strip.gif", 250, UndefNum, UndefStr),
    ImageInfo("column.png", UndefNum, 250, UndefStr),
    ImageInfo("photo.webp", UndefNum, UndefNum, ""),
    ImageInfo("dot.gif", 0, 0, UndefStr) }
FilterInputs == UNION { [1..n -> FilterImages] : n \in 0..MaxFilterInput }

\* most elements of a markup handed to extractImagesFromHTML
MaxTags == 2

\* <img> tags: plain, the same file under another reference, lazy-loaded,
\* without source, icon-named, a small data URI
TagA == ImgTag("a.jpg", UndefStr, <<>>, 800, 400, "A")
TagADot == ImgTag("./a.jpg", UndefStr, <<>>, UndefNum, UndefNum, UndefStr)
TagLazy == ImgTag(UndefStr, "b.jpg", <<>>, 300, UndefNum, "")
TagNoSrc == ImgTag(UndefStr, UndefStr, <<>>, 10, 10, UndefStr)
TagIcon == ImgTag("/icon/i.png", UndefStr, <<>>, 16, 16, "Icon")
TagData == ImgTag("data:image/gif;base64,R0lGOD", UndefStr, <<>>, UndefNum, UndefNum, UndefStr)
\* <img> tags with a srcset:
\* "a.jpg 400w, b.jpg 800w"; "a.jpg 50w, b.jpg 2x"; "a.jpg 1x, b.jpg 2x";
\* "a.jpg 1.5x, b.jpg 1.9x"; "a.jpg 400"; "a.jpg, b.jpg 0w"
Small(srcset) == ImgTag("small.jpg", UndefStr, srcset, UndefNum, UndefNum, UndefStr)
TagWidths ==
  Small(<< SrcsetEntry("a.jpg", "w", 4000), SrcsetEntry("b.jpg", "w", 8000) >>)
TagMixed ==
  Small(<< SrcsetEntry("a.jpg", "w", 500), SrcsetEntry("b.jpg", "x", 20) >>)
TagDensities ==
  Small(<< SrcsetEntry("a.jpg", "x", 10), SrcsetEntry("b.jpg", "x", 20) >>)
TagFractions ==
  Small(<< SrcsetEntry("a.jpg", "x", 15), SrcsetEntry("b.jpg", "x", 19) >>)
TagBareNumber ==
  Small(<< SrcsetEntry("a.jpg", "bare", 4000) >>)
TagNoDescriptor ==
  Small(<< SrcsetEntry("a.jpg", "none", 0), SrcsetEntry("b.jpg", "w", 0) >>)
\* <picture> blocks: around a plain <img>; with a <source srcset="b.jpg 800w">;
\* around an icon-named <img>; without <img>
PictureA == Picture(<<>>, << TagA >>)
PictureSource ==
  Picture(<< << SrcsetEntry("b.jpg", "w", 8000) >> >>, << Small(<<>>) >>)
PictureIcon == Picture(<<>>, << TagIcon >>)
PictureEmpty == Picture(<<>>, <<>>)

HarvestElements ==
  { TagA, TagADot, TagLazy, TagNoSrc, TagIcon, TagData, TagWidths, TagMixed,
    TagDensities, TagFractions, TagBareNumber, TagNoDescriptor, PictureA,
    PictureSource, PictureIcon, PictureEmpty }
HarvestInputs ==
  { Undef, NonString }
  \cup { Str(s) : s \in UNION { [1..n -> HarvestElements] : n \in 0..MaxTags } }

\* most elements of a markup handed to extractTextFromHTML
MaxElements == 3

ExtractElements ==
  { TextRun(1), TextRun(5000), TextRun(7999), TextRun(9000), SpaceRun(3), Tag,
    ScriptBlock(20000), Entity("nbsp"), Entity("amp"), Entity("lt"),
    Entity("gt"), Name("lt"), PictureA }
ExtractInputs ==
  { Undef, NonString }
  \cup { Str(s) : s \in UNION { [1..n -> ExtractElements] : n \in 0..MaxElements } }

\* the calls of the model capability: the capability, the phrases in the
\* server URL, and what the fetch of /chat/completions gives
Capabilities == {"predict", "predictWithVision"}
BaseUrls == { {}, {"timeout"} }
Bodies ==
  { [head |-> {}, rest |-> {}],
    [head |-> {"No models loaded"}, rest |-> {}],
    [head |-> {}, rest |-> {"No models loaded"}],
    [head |-> {"timeout"}, rest |-> {}],
    [head |-> {}, rest |-> {"timeout"}],
    [head |-> {"No models loaded", "aborted"}, rest |-> {}],
    [head |-> {"ECONNREFUSED"}, rest |-> {}] }
ErrorStatuses == {400, 401, 404, 429, 500, 503}
Responses ==
  { [kind |-> "response", status |-> st, body |-> b, data |-> "not JSON"] :
      st \in ErrorStatuses, b \in Bodies }
  \cup { [kind |-> "response", status |-> 200, body |-> [head |-> {}, rest |-> {}],
          data |-> d] :
          d \in {"message", "no message", "no choices", "not JSON"} }
FetchErrors ==
  { ErrorOf(c, n, "", m) :
      c \in {"", "ECONNREFUSED", "ENOTFOUND", "ETIMEDOUT", "ECONNRESET", "EPIPE"},
      n \in {"TypeError", "AbortError", "TimeoutError"},
      m \in { {}, {"fetch failed"}, {"aborted"}, {"LLM Error:"} } }
PredictCalls ==
  { [kind |-> "predict", capability |-> c, llmBaseUrl |-> u, fetched |-> f] :
      c \in Capabilities, u \in BaseUrls, f \in Responses \cup FetchErrors }
\* the score tasks: a fetched candidate and what the vision call does
ScoreCalls ==
  { [kind |-> "score",
     img |-> [HarvestedImage(u) EXCEPT !.size = BytesAt(u)],
     vision |-> o] : u \in Urls, o \in ScoringOutcomes }
StatusCalls ==
  { [kind |-> "status", status |-> st] : st \in ErrorStatuses \cup {403, 410} }

\* the variables of the workflows, which no function call touches
workflowVars ==
  << pageContext, pipelineOk, pageAltText, pageTopic, fuelUsed, tasks,
     scoredCandidates, imageResult, result, thrown, fuelSpent, vmErr,
     settled >>

FunctionsInit ==
  /\ wf \in Functions
  /\ pc = "start"
  /\ \/ /\ wf = "filterCandidateImages"
        /\ images \in FilterInputs
        /\ limit \in 1..MaxCandidates
        /\ html = Undef
        /\ call = NoCall
     \/ /\ wf = "extractImagesFromHTML"
        /\ html \in HarvestInputs
        /\ images = <<>>
        /\ limit = MaxCandidates
        /\ call = NoCall
     \/ /\ wf = "extractTextFromHTML"
        /\ html \in ExtractInputs
        /\ images = <<>>
        /\ limit = MaxCandidates
        /\ call = NoCall
     \/ /\ wf = "predict"
        /\ call \in PredictCalls
        /\ html = Undef
        /\ images = <<>>
        /\ limit = MaxCandidates
     \/ /\ wf = "scoreTask"
        /\ call \in ScoreCalls
        /\ html = Undef
        /\ images = <<>>
        /\ limit = MaxCandidates
     \/ /\ wf = "classifyHttpStatus"
        /\ call \in StatusCalls
        /\ html = Undef
        /\ images = <<>>
        /\ limit = MaxCandidates
  /\ candidates = <<>>
  /\ text = Undef
  /\ pageContext = NoContext
  /\ pipelineOk = FALSE
  /\ pageAltText = Undef
  /\ pageTopic = Undef
  /\ fuelUsed = UndefNum
  /\ tasks = <<>>
  /\ scoredCandidates = <<>>
  /\ imageResult = NoImageResult
  /\ result = NoResult
  /\ thrown = ""
  /\ fuelSpent = [page |-> 0, image |-> 0, desc |-> 0]
  /\ vmErr = [page |-> "", image |-> "", desc |-> ""]
  /\ settled = [fetch |-> <<>>, score |-> <<>>]
  /\ outcome = NoOutcome
  /\ summary = NoSummary
  /\ queryHistory = NoHistory
  /\ inFlight = 0
  /\ batteries = Batteries
  /\ invocations = <<>>

\* index.ts 2187-2214: filterCandidateImages(images, maxCandidates)
CallFilter ==
  /\ wf = "filterCandidateImages"
  /\ pc = "start"
  /\ candidates' = filterCandidateImages(images, limit)
  /\ pc' = "returned"
  /\ UNCHANGED << wf, images, html, text, limit >>
  /\ UNCHANGED << workflowVars, hostVars >>

\* index.ts 1965-2145: extractImagesFromHTML(html, baseUrl)
CallHarvest ==
  /\ wf = "extractImagesFromHTML"
  /\ pc = "start"
  /\ images' = extractImagesFromHTML(html, PageUrl)
  /\ pc' = "returned"
  /\ UNCHANGED << wf, candidates, html, text, limit >>
  /\ UNCHANGED << workflowVars, hostVars >>

\* index.ts 1921-1948: extractTextFromHTML(html)
CallExtract ==
  /\ wf = "extractTextFromHTML"
  /\ pc = "start"
  /\ text' = extractTextFromHTML(html)
  /\ pc' = "returned"
  /\ UNCHANGED << wf, images, candidates, html, limit >>
  /\ UNCHANGED << workflowVars, hostVars >>

\* index.ts 1921-1948: extractTextFromHTML applied to the text that it
\* returned
CallExtractAgain ==
  /\ wf = "extractTextFromHTML"
  /\ pc = "returned"
  /\ html' = text
  /\ text' = extractTextFromHTML(text)
  /\ pc' = "returned again"
  /\ UNCHANGED << wf, images, candidates, limit >>
  /\ UNCHANGED << workflowVars, hostVars >>

\* index.ts 2931-3097, 3098-3273: predict / predictWithVision
CallPredict ==
  /\ wf = "predict"
  /\ pc = "start"
  /\ outcome' = predict(call.capability, call.llmBaseUrl, call.fetched)
  /\ pc' = "returned"
  /\ UNCHANGED << wf, images, candidates, html, text, limit, call, summary,
                  queryHistory, inFlight, batteries, invocations >>
  /\ UNCHANGED workflowVars

\* spec.md 4.8: classifyHttpStatus
CallClassifyHttpStatus ==
  /\ wf = "classifyHttpStatus"
  /\ pc = "start"
  /\ \E kind \in classifyHttpStatus(call.status) :
       outcome' = [kind |-> "classified", is |-> kind]
  /\ pc' = "returned"
  /\ UNCHANGED << wf, images, candidates, html, text, limit, call, summary,
                  queryHistory, inFlight, batteries, invocations >>
  /\ UNCHANGED workflowVars

\* index.ts 3801-3846: one task of the score stage
CallScoreTask ==
  /\ wf = "scoreTask"
  /\ pc = "start"
  /\ outcome' = [kind |-> "scored", score |-> ScoreOfTask(call.img, call.vision)]
  /\ pc' = "returned"
  /\ UNCHANGED << wf, images, candidates, html, text, limit, call, summary,
                  queryHistory, inFlight, batteries, invocations >>
  /\ UNCHANGED workflowVars

FunctionsNext ==
  \/ CallPredict
  \/ CallScoreTask
  \/ CallClassifyHttpStatus
  \/ CallFilter
  \/ CallHarvest
  \/ CallExtract
  \/ CallExtractAgain

FunctionsSpec == FunctionsInit /\ [][FunctionsNext]_vars

\* ================================================================== claims
Done == pc = "done"
CombinedReturned == wf = "combined" /\ result.returned

\* a value generation produced that can be used as a text: a string with at
\* least one character that is not white space
Usable(v) == v.t = "string" /\ \E i \in DOMAIN v.s : v.s[i] # " "

\* no image field in the returned record
NoImageFields(r) ==
  /\ r.imageUrl = UndefStr
  /\ r.imageAltText = UndefStr
  /\ r.imageDescription = UndefStr
  /\ r.imageWidth = UndefNum
  /\ r.imageHeight = UndefNum
  /\ r.imageSize = UndefNum

StartsWith(s, prefix) ==
  Len(s) >= Len(prefix) /\ SubSeq(s, 1, Len(prefix)) = prefix

SiteNotAnalyzedMessage ==
  << "S","i","t","e"," ","c","o","u","l","d"," ","n","o","t"," ","b","e"," ",
     "a","n","a","l","y","z","e","d" >>

\* C1: generateCombined never throws, whatever the page fetch and the page
\* summarization do; and when the page step failed with connection refused,
\* the returned pageAltText begins with a site-could-not-be-analyzed message
\* and imageUrl is absent.
C1_NeverThrowsAndExplains ==
  (wf = "combined" /\ Done) =>
    /\ result.returned
    /\ thrown = ""
    /\ vmErr.page = "ECONNREFUSED" =>
         /\ StartsWith(result.pageAltText.s, SiteNotAnalyzedMessage)
         /\ result.imageUrl = UndefStr

\* C2: in every record generateCombined returns, pageAltText and pageTopic
\* are non-empty strings, and whenever generation gave undefined, a
\* non-string, an empty or a white-space-only value the literal placeholder
\* stands in its place.
C2_PageFieldsNeverEmpty ==
  CombinedReturned =>
    /\ result.pageAltText.t = "string" /\ result.pageAltText.s # <<>>
    /\ result.pageTopic.t = "string" /\ result.pageTopic.s # <<>>
    /\ ~Usable(pageAltText) => result.pageAltText = Str(UnableAltText)
    /\ ~Usable(pageTopic) => result.pageTopic = Str(UnableTopic)

C2_Witness ==
  /\ CombinedReturned
  /\ pageAltText = Str(<<" ">>)
  /\ result.pageAltText = Str(UnableAltText)
  /\ result.pageTopic = Str(UnableTopic)

\* the image sub-pipeline of the combined workflow failed or came back empty
ImageStageCameUpEmpty ==
  \/ images = <<>>
  \/ candidates = <<>>
  \/ \A i \in DOMAIN tasks : tasks[i].fetch = "fail"
  \/ vmErr.image # ""

\* C3: in generateCombined, when the page step succeeded, a failure or an
\* empty result of the image sub-pipeline (no image harvested, none passing
\* the filter, every fetch failing, the image VM run throwing) is absorbed: a
\* record is returned whose page fields are those of the page step (its
\* altText and topic, trimmed; its fuel) and which has no image field.
C3_ImageFailureAbsorbed ==
  (wf = "combined" /\ Done /\ pipelineOk /\ ImageStageCameUpEmpty) =>
    /\ result.returned
    /\ thrown = ""
    /\ Usable(pageAltText) => result.pageAltText = Str(Trim(pageAltText.s))
    /\ Usable(pageTopic) => result.pageTopic = Str(Trim(pageTopic.s))
    /\ result.fuelUsed = fuelUsed
    /\ NoImageFields(result)

C3_Witness ==
  /\ CombinedReturned
  /\ pipelineOk
  /\ vmErr.image = "timeout"
  /\ \E i \in DOMAIN tasks : tasks[i].scored
  /\ result.pageAltText = Str(<<"a">>)
  /\ NoImageFields(result)

C5_FuelIsSumOfAllRuns ==
  CombinedReturned =>
    result.fuelUsed = fuelSpent.page + fuelSpent.image + fuelSpent.desc

\* the image workflow's VM run returned, and no candidate survived the fetch
ZeroSurvivors ==
  /\ wf = "image" /\ Done
  /\ vmErr.page = ""
  /\ \A i \in DOMAIN tasks : tasks[i].fetch = "fail"

\* C6: generateImage ends with the terminal failure 'No candidate images
\* found or processed', and returns no record, whenever scoring yields zero
\* survivors: no image harvested, none passing the filter, or every fetch of
\* a candidate failing.
C6_NoUsableImageIsTerminal ==
  ZeroSurvivors => thrown = NoCandidates /\ ~result.returned

C6_Witness ==
  /\ ZeroSurvivors
  /\ Len(tasks) = 2
  /\ thrown = NoCandidates
  /\ ~result.returned

\* C7: generatePage propagates failures: when the page fetch or the
\* summarization call fails, the call rejects with that exception and returns
\* no record; a record is returned only when neither failed.
C7_PageFailuresPropagate ==
  (wf = "page" /\ Done) =>
    /\ vmErr.page # "" => thrown = vmErr.page /\ ~result.returned
    /\ result.returned => vmErr.page = "" /\ thrown = ""

C7_Witness ==
  /\ wf = "page" /\ Done
  /\ vmErr.page = "ENOTFOUND"
  /\ thrown = "ENOTFOUND"
  /\ ~result.returned

\* some VM run of the workflow ran out of fuel
FuelRanOut ==
  FuelExhausted \in {vmErr.page, vmErr.image, vmErr.desc}

\* C8 as stated: fuel exhaustion during any workflow propagates uncaught to
\* the caller; it never becomes a placeholder result or an omitted field.
C8_FuelExhaustionIsFatal ==
  (Done /\ FuelRanOut) => thrown = FuelExhausted /\ ~result.returned

\* C8 amended: fuel exhaustion propagates uncaught from generatePage and from
\* the first VM run of generateImage.  generateCombined catches it like any
\* other failure of a VM run: in the page pipeline it gives the placeholder
\* page fields, no fuelUsed and no image field; in the image pipeline a record
\* without image fields.  In the image-description run (image and combined
\* workflows) it gives a record whose image alt text is the winner's alt
\* attribute or the placeholder.
C8_FuelExhaustionFatalOutsideCombined ==
  Done =>
    /\ (wf \in {"page", "image"} /\ vmErr.page = FuelExhausted) =>
         thrown = FuelExhausted /\ ~result.returned
    /\ (wf = "combined" /\ vmErr.page = FuelExhausted) =>
         /\ result.returned /\ thrown = ""
         /\ result.pageAltText = Str(UnableAltText)
         /\ result.pageTopic = Str(UnableTopic)
         /\ result.fuelUsed = UndefNum
         /\ NoImageFields(result)
    /\ (wf = "combined" /\ vmErr.image = FuelExhausted) =>
         result.returned /\ thrown = "" /\ NoImageFields(result)
    /\ vmErr.desc = FuelExhausted =>
         /\ result.returned /\ thrown = ""
         /\ result.imageUrl # UndefStr
         /\ \E i \in DOMAIN candidates :
              /\ candidates[i].url = result.imageUrl
              /\ result.imageAltText =
                   (IF candidates[i].alt \notin {UndefStr, ""}
                    THEN candidates[i].alt
                    ELSE UnableImageAltText)

C8_Witness ==
  /\ wf = "combined" /\ Done
  /\ vmErr.page = FuelExhausted
  /\ result.returned
  /\ result.pageAltText = Str(UnableAltText)

\* the candidate (index) a scored entry was made from
TaskOf(entry) == CHOOSE i \in DOMAIN candidates : candidates[i].url = entry.img.url

\* processCandidateImages has returned
AtomReturned == pc = "vmdone"

\* C9: failures in scoreAll are isolated per candidate: exactly the
\* candidates whose fetch failed are missing from the result, the others
\* appear once each in the order of the candidates, with their fetched size;
\* a candidate whose vision call failed appears with the fallback score, its
\* siblings with the scores of their own calls.
C9_FailuresIsolatedPerCandidate ==
  AtomReturned =>
    /\ \A i \in DOMAIN tasks :
         tasks[i].fetch = "ok" <=>
           \E j \in DOMAIN scoredCandidates :
             scoredCandidates[j].img.url = candidates[i].url
    /\ Len(scoredCandidates) = Cardinality(ValidCandidates)
    /\ \A j, k \in DOMAIN scoredCandidates :
         j < k => TaskOf(scoredCandidates[j]) < TaskOf(scoredCandidates[k])
    /\ \A j \in DOMAIN scoredCandidates :
         LET e == scoredCandidates[j]
             t == tasks[TaskOf(e)]
         IN  /\ e.imageData.size = BytesAt(e.img.url)
             /\ e.score = t.score
             /\ t.vision \in {"throw", "badjson"} => e.score = FallbackScore(e.img)
             /\ t.vision = "score" => e.score \in { v * ScoreScale : v \in VisionScores }

C9_Witness ==
  /\ AtomReturned
  /\ Len(tasks) = 2
  /\ tasks[1].fetch = "fail"
  /\ tasks[2].fetch = "ok" /\ tasks[2].vision = "score"
  /\ Len(scoredCandidates) = 1
  /\ scoredCandidates[1].img.url = candidates[2].url
  /\ scoredCandidates[1].score = 80 * ScoreScale

\* the vision call threw for every candidate that was scored
VisionThrewForAll ==
  /\ AtomReturned
  /\ scoredCandidates # <<>>
  /\ \A i \in ValidCandidates : tasks[i].vision = "throw"

\* score is min(50, num / den), in 1/ScoreScale points (den divides
\* ScoreScale, so num / den is num * (ScoreScale / den) of these)
IsCappedQuotient(score, num, den) ==
  /\ ScoreScale % den = 0
  /\ IF num >= FallbackCap * den
     THEN score = FallbackCap * ScoreScale
     ELSE score = num * (ScoreScale \div den)

\* the fallback the claim states, for a score s of image img
IsStatedFallback(s, img) ==
  /\ IF img.area # UndefNum THEN IsCappedQuotient(s, img.area, AreaDivisor)
     ELSE IF img.size # UndefNum THEN IsCappedQuotient(s, img.size, SizeDivisor)
     ELSE s = 0
  /\ s <= FallbackCap * ScoreScale

\* C10: when the vision capability throws for every candidate, each scored
\* candidate's score is min(50, area/10000) if its area is known, else
\* min(50, sizeBytes/100000) if its byte size is known, else 0, and is at
\* most 50; the fallback of the scoreImageInterestingness atom is the same.
C10_FallbackScoreFormula ==
  VisionThrewForAll =>
    \A j \in DOMAIN scoredCandidates :
      /\ IsStatedFallback(scoredCandidates[j].score, scoredCandidates[j].img)
      /\ IsStatedFallback(AtomFallbackScore(scoredCandidates[j].img),
                          scoredCandidates[j].img)

C10_Witness ==
  /\ VisionThrewForAll
  /\ Len(scoredCandidates) = 2
  /\ scoredCandidates[1].img.url = "banner.png"
  /\ scoredCandidates[1].score = FallbackCap * ScoreScale
  /\ scoredCandidates[2].img.url = "wide.gif"
  /\ 2 * scoredCandidates[2].score = 5 * ScoreScale

\* --------------------------------------------------------- winner selection
\* the score of a settled score task is the fallback estimate / is the number
\* the vision capability returned
IsFallbackTask(t) == t.fetch = "ok" /\ t.scored /\ t.vision \in {"throw", "badjson"}
IsGenuineTask(t) == t.fetch = "ok" /\ t.scored /\ t.vision = "score"

\* winner selection has run (both workflows keep the winner in imageResult)
WinnerSelected == imageResult.has

\* C11: a candidate whose score is a fallback estimate is never the winner
\* when another candidate of the batch has a genuine vision score above 50,
\* whichever of the two comes first in the batch.
C11_FallbackNeverOutranksHighVision ==
  WinnerSelected =>
    \A i, j \in DOMAIN tasks :
      ( /\ IsFallbackTask(tasks[i])
        /\ IsGenuineTask(tasks[j])
        /\ tasks[j].score > FallbackCap * ScoreScale )
      => imageResult.imageUrl # candidates[i].url

C11_Witness ==
  /\ WinnerSelected
  /\ Len(tasks) = 2
  /\ IsFallbackTask(tasks[1])
  /\ tasks[1].score = FallbackCap * ScoreScale
  /\ IsGenuineTask(tasks[2])
  /\ tasks[2].score = 80 * ScoreScale
  /\ imageResult.imageUrl = candidates[2].url

\* C12: every entry processCandidateImages returns has a score in [0, 100],
\* whatever the vision capability answered (a number outside 0..100
\* included) and for every fallback.
C12_ScoresWithinRange ==
  AtomReturned =>
    \A j \in DOMAIN scoredCandidates :
      /\ scoredCandidates[j].score >= 0
      /\ scoredCandidates[j].score <= 100 * ScoreScale

\* C13: the winner of a non-empty scored list has the maximum score, and
\* among the candidates tied at the maximum it is the earliest in the list.
C13_WinnerIsEarliestMaximum ==
  WinnerSelected =>
    \E k \in DOMAIN scoredCandidates :
      /\ imageResult.imageUrl = scoredCandidates[k].img.url
      /\ \A j \in DOMAIN scoredCandidates :
           scoredCandidates[j].score <= scoredCandidates[k].score
      /\ \A j \in 1..(k - 1) :
           scoredCandidates[j].score < scoredCandidates[k].score

C13_Witness ==
  /\ WinnerSelected
  /\ Len(scoredCandidates) = 2
  /\ scoredCandidates[1].score = 80 * ScoreScale
  /\ scoredCandidates[2].score = 80 * ScoreScale
  /\ imageResult.imageUrl = scoredCandidates[1].img.url

\* the candidates whose fetch succeeded, and the earliest of those with the
\* highest score: both read off the per-candidate outcomes alone
EarliestBest ==
  CHOOSE i \in ValidCandidates :
    /\ \A k \in ValidCandidates : tasks[k].score <= tasks[i].score
    /\ \A k \in ValidCandidates : k < i => tasks[k].score < tasks[i].score

\* C14: the scored list and the winner do not depend on the order in which
\* the fetch tasks and the score tasks complete: the list holds the
\* candidates whose fetch succeeded in the order of the filtered candidates,
\* each with the score of its own task, and the winner is the earliest of the
\* best of them, whatever the completion order was.
C14_IndependentOfCompletionOrder ==
  /\ (pc = "vmdone" \/ scoredCandidates # <<>>) =>
       /\ Len(scoredCandidates) = Cardinality(ValidCandidates)
       /\ \A j \in DOMAIN scoredCandidates :
            LET i == TaskOf(scoredCandidates[j])
            IN  /\ i \in ValidCandidates
                /\ Cardinality({ k \in ValidCandidates : k < i }) = j - 1
                /\ scoredCandidates[j].score = tasks[i].score
  /\ WinnerSelected => imageResult.imageUrl = candidates[EarliestBest].url

C14_Witness ==
  /\ WinnerSelected
  /\ Len(tasks) = 2
  /\ settled.fetch = << 2, 1 >>
  /\ settled.score = << 2, 1 >>
  /\ tasks[1].score = tasks[2].score
  /\ scoredCandidates[1].img.url = candidates[1].url
  /\ imageResult.imageUrl = candidates[1].url

\* C15: in generateCombined the image pipeline starts only after the page
\* pipeline (fetch and summarization) has returned: no image is fetched or
\* scored before, and the context of the scoring is the page step's altText
\* and topic (passed when both are non-empty).
C15_ImagesAfterPageStep ==
  (wf = "combined" /\ pc \in {"fetching", "scoring", "vmdone"}) =>
    /\ pipelineOk
    /\ vmErr.page = ""
    /\ fuelSpent.page = PageFetchCost(wf) + SummarizeCost
    /\ pageContext.has =>
         pageContext.altText = pageAltText /\ pageContext.topic = pageTopic
    /\ (Truthy(pageAltText) /\ Truthy(pageTopic)) => pageContext.has

C15_Witness ==
  /\ wf = "combined"
  /\ pc = "scoring"
  /\ \E i \in DOMAIN tasks : tasks[i].scored
  /\ pageContext.has
  /\ pageContext.altText = Str(<<" ", "a", " ">>)
  /\ pageContext.topic = pageTopic

\* ------------------------------------------------------ filterCandidateImages
FilterReturned == wf = "filterCandidateImages" /\ pc = "returned"

\* the inclusion rule as C16 states it
StatedInclusionRule(img) ==
  \/ img.area # UndefNum /\ img.area > 100
  \/ img.width # UndefNum /\ img.height # UndefNum
       /\ img.width > 10 /\ img.height > 10
  \/ img.width # UndefNum /\ img.width > 10
  \/ img.height # UndefNum /\ img.height > 10
  \/ img.width = UndefNum /\ img.height = UndefNum

\* the inclusion rule with the thresholds of the code: an image above icon
\* size.  A dimension that is absent or 0 counts as unknown.
AboveIconSize(img) ==
  LET known(n) == n # UndefNum /\ n # 0 IN
  \/ known(img.area) /\ img.area > 10000
  \/ known(img.width) /\ known(img.height)
       /\ img.width > 100 /\ img.height > 100
  \/ known(img.width) /\ img.width > 200
  \/ known(img.height) /\ img.height > 200
  \/ ~known(img.width) /\ ~known(img.height)

\* filter keeps exactly the images that satisfy rule (when they all fit
\* under the limit)
KeepsExactly(rule(_)) ==
  /\ \A c \in Range(candidates) : c \in Range(images) /\ rule(c)
  /\ Cardinality({ i \in DOMAIN images : rule(images[i]) }) <= limit =>
       \A i \in DOMAIN images : rule(images[i]) => images[i] \in Range(candidates)

\* C16 as stated: filter keeps an image iff its area is > 100, or both
\* dimensions are known and > 10, or one dimension is > 10, or neither is
\* known; so of logo.svg 20x20 and hero.jpg 800x400 both are kept, hero.jpg
\* first.
C16_FilterKeepsAboveTen ==
  FilterReturned =>
    /\ KeepsExactly(StatedInclusionRule)
    /\ (images = << Logo20, Hero800 >> /\ limit = 3) =>
         candidates = << Hero800, Logo20 >>

\* C16 amended: filter keeps an image iff its area is > 10000, or both
\* dimensions are known and > 100, or one dimension is > 200, or neither is
\* known (an absent or zero dimension is unknown); so of logo.svg 20x20 and
\* hero.jpg 800x400 only hero.jpg is kept.
C16_FilterKeepsAboveIconSize ==
  FilterReturned =>
    /\ KeepsExactly(AboveIconSize)
    /\ (images = << Logo20, Hero800 >> /\ limit = 3) =>
         candidates = << Hero800 >>

C16_Witness ==
  /\ FilterReturned
  /\ images = << Logo20, Hero800 >>
  /\ limit = 3
  /\ candidates = << Hero800 >>

\* a ranks above b: known area before unknown area, larger area first; among
\* unknown areas the larger width first, an unknown width counting as 0
StatedAbove(a, b) ==
  LET width(x) == IF x.width = UndefNum THEN 0 ELSE x.width IN
  \/ a.area # UndefNum /\ b.area = UndefNum
  \/ a.area # UndefNum /\ b.area # UndefNum /\ a.area > b.area
  \/ a.area = UndefNum /\ b.area = UndefNum /\ width(a) > width(b)

\* C17: the result of filter(images, maxCandidates) has at most
\* maxCandidates entries, all of them entries of the input that satisfy the
\* inclusion rule of the filter (that of the amended C16); it is ordered by
\* area descending with known areas before unknown ones, then by width
\* descending among unknown areas, otherwise in input order; and no entry
\* cut by the truncation ranks above a kept one.
C17_FilterRanksAndTruncates ==
  FilterReturned =>
    /\ Len(candidates) <= limit
    /\ \E f \in [DOMAIN candidates -> DOMAIN images] :
         /\ \A k, l \in DOMAIN candidates : k # l => f[k] # f[l]
         /\ \A k \in DOMAIN candidates :
              /\ candidates[k] = images[f[k]]
              /\ AboveIconSize(candidates[k])
         /\ \A k, l \in DOMAIN candidates :
              k < l =>
                \/ StatedAbove(candidates[k], candidates[l])
                \/ /\ ~StatedAbove(candidates[l], candidates[k])
                   /\ f[k] < f[l]
         /\ \A d \in DOMAIN images :
              (AboveIconSize(images[d]) /\ \A k \in DOMAIN candidates : f[k] # d) =>
                /\ Len(candidates) = limit
                /\ \A k \in DOMAIN candidates :
                     ~StatedAbove(images[d], candidates[k])

C17_Witness ==
  /\ FilterReturned
  /\ limit = 2
  /\ Len(images) = 3
  /\ images[1].url = "photo.webp"
  /\ images[2].url = "strip.gif"
  /\ images[3].url = "hero.jpg"
  /\ Len(candidates) = 2
  /\ candidates[1].url = "hero.jpg"
  /\ candidates[2].url = "strip.gif"

\* ------------------------------------------------------ extractImagesFromHTML
HarvestReturned == wf = "extractImagesFromHTML" /\ pc = "returned"

\* C18: a harvest result never holds two candidates with the same URL,
\* whatever the markup: an <img> inside a <picture> (seen by both passes),
\* or two tags whose srcset gives the same largest variant.
C18_HarvestHasNoDuplicateUrl ==
  HarvestReturned =>
    \A i, j \in DOMAIN images : i # j => images[i].url # images[j].url

\* the markup is one inline <img> tag, and the harvest took it
OneInlineTagHarvested ==
  /\ HarvestReturned
  /\ html.t = "string"
  /\ Len(html.s) = 1
  /\ html.s[1].kind = "img"
  /\ images # <<>>

\* the entries of a srcset that carry a positive descriptor of the kind, and
\* the URLs of the largest of them
PositiveOfKind(srcset, kind) ==
  { i \in DOMAIN srcset : srcset[i].kind = kind /\ srcset[i].tenths > 0 }
UrlsOfLargest(srcset, among) ==
  { resolveUrl(srcset[i].url, PageUrl) :
      i \in { k \in among : \A l \in among : srcset[l].tenths <= srcset[k].tenths } }

\* the URL C19 states for a tag
StatedSrcsetChoice(tag) ==
  IF PositiveOfKind(tag.srcset, "w") # {}
  THEN UrlsOfLargest(tag.srcset, PositiveOfKind(tag.srcset, "w"))
  ELSE IF PositiveOfKind(tag.srcset, "x") # {}
  THEN UrlsOfLargest(tag.srcset, PositiveOfKind(tag.srcset, "x"))
  ELSE { resolveUrl(SrcOf(tag), PageUrl) }

\* C19 as stated: for an inline <img> with a srcset the harvested URL is the
\* resolved URL of the entry with the largest w-descriptor whenever an entry
\* has one; x-descriptors decide only when none has; without srcset, or
\* without a positive descriptor, it is the plain src.
C19_SrcsetWidthBeforeDensity ==
  OneInlineTagHarvested =>
    /\ Len(images) = 1
    /\ images[1].url \in StatedSrcsetChoice(html.s[1])

\* the weight of a srcset entry: the integer part of a w-descriptor or of a
\* number without suffix, 100 times the integer part of an x-descriptor, 0
\* without descriptor
StatedWeight(entry) ==
  IF entry.kind = "none" THEN 0
  ELSE IF entry.kind = "x" THEN 100 * (entry.tenths \div 10)
  ELSE entry.tenths \div 10

\* C19 amended: the entries of the srcset are weighted on one scale (w and
\* plain numbers by their integer part, x by 100 times its integer part);
\* the harvested URL is the resolved URL of the first entry of the largest
\* weight if that weight is positive, whichever kind of descriptor it has;
\* without srcset, or without a positive weight, it is the plain src.
C19_SrcsetLargestWeight ==
  OneInlineTagHarvested =>
    LET tag == html.s[1]
        heaviest ==
          { k \in DOMAIN tag.srcset :
              /\ StatedWeight(tag.srcset[k]) > 0
              /\ \A l \in DOMAIN tag.srcset :
                   StatedWeight(tag.srcset[l]) <= StatedWeight(tag.srcset[k]) }
    IN  /\ Len(images) = 1
        /\ heaviest = {} => images[1].url = resolveUrl(SrcOf(tag), PageUrl)
        /\ heaviest # {} =>
             \E k \in heaviest :
               /\ \A l \in heaviest : k <= l
               /\ images[1].url = resolveUrl(tag.srcset[k].url, PageUrl)

C19_Witness ==
  /\ OneInlineTagHarvested
  /\ html.s[1] = TagMixed
  /\ Len(images) = 1
  /\ images[1].url = "https://x.test/b.jpg"

\* -------------------------------------------------------- extractTextFromHTML
ExtractReturned == wf = "extractTextFromHTML" /\ pc = "returned"

\* C20: extractTextFromHTML never throws and returns a string of at most
\* 8000 characters, for every input; for an input that is not a string, is
\* null or undefined, or is the empty string, it returns the empty string.
C20_ExtractIsTotalAndBounded ==
  ExtractReturned =>
    /\ thrown = ""
    /\ text.t = "string"
    /\ TextLength(text.s) <= 8000
    /\ (html.t # "string" \/ html.s = <<>>) => text = Str(<<>>)

C20_Witness ==
  /\ ExtractReturned
  /\ html = Str(<< TextRun(5000), Tag, TextRun(5000) >>)
  /\ text = Str(<< TextRun(5000), SpaceRun(1), TextRun(2999) >>)
  /\ TextLength(text.s) = 8000

ExtractedAgain == wf = "extractTextFromHTML" /\ pc = "returned again"

HoldsChar(runs, c) == \E k \in 1..Len(runs) : runs[k] = Char(c)
EndsInSpace(runs) == runs # <<>> /\ runs[Len(runs)].kind = "space"

\* C21 (as stated): extractTextFromHTML applied to a text that it returned
\* returns that text, also when the text holds a < , > or & that an entity
\* was decoded to.
C21_ExtractIdempotent ==
  ExtractedAgain => text = html

\* C21 (amended): extractTextFromHTML applied to a text that it returned,
\* that holds no < and no & and does not end in a space, returns that text.
C21_ExtractIdempotentOnPlainText ==
  (/\ ExtractedAgain
   /\ ~HoldsChar(html.s, "<")
   /\ ~HoldsChar(html.s, "&")
   /\ ~EndsInSpace(html.s))
  => text = html

C21_Witness ==
  /\ ExtractedAgain
  /\ html = Str(<< TextRun(1), SpaceRun(1), Char(">") >>)
  /\ text = html

\* ------------------------------------------------------------ error handling
PredictReturned == wf = "predict" /\ pc = "returned"
NotOk == call.fetched.kind = "response" /\ ~Ok(call.fetched)
BodyHolds(phrase) ==
  phrase \in call.fetched.body.head \cup call.fetched.body.rest

\* the kind that an error of the model capability is, by its headline
ModelKind(error) ==
  CASE error.headline = "No model loaded" -> "no_model"
    [] error.headline = "Cannot connect" -> "connection_refused"
    [] error.headline \in {"status", "generic"} -> "unknown"
    [] OTHER -> "other"

\* a failure that no entry of the two tables is about: an answer with a
\* status of no entry and a body and a server URL without any of the phrases
\* looked for, or a network error with a code and a name of no entry and
\* none of the phrases in its message
Unmatched ==
  \/ /\ NotOk
     /\ call.fetched.status = 400
     /\ call.fetched.body = [head |-> {}, rest |-> {}]
     /\ call.llmBaseUrl = {}
  \/ /\ call.fetched.kind = "error"
     /\ call.fetched.code \in {"", "EPIPE"}
     /\ call.fetched.name # "AbortError"
     /\ call.fetched.message = {}

StatusHeadlines ==
  {"No model loaded", "Authentication failed", "Endpoint not found",
   "Rate limit exceeded", "Server error", "status"}

\* C27: the error that predict / predictWithVision makes for an answer that
\* is not OK reaches the caller as it was made, whatever the body of the
\* answer holds: the catch block never turns it into a connection failure.
C27_StatusErrorReachesCaller ==
  (PredictReturned /\ NotOk) =>
    /\ outcome.kind = "error"
    /\ outcome.headline \in StatusHeadlines
    /\ ErrorPrefix(call.capability) \in outcome.message

\* ------------------------------------------------------------- page workflow
PageDone == wf = "page" /\ pc = "done"

HistoryLimit == 50
\* most entries ever added, most requests handled at a time
MaxAdded == 52
MaxInFlight == 2

\* Array.prototype.unshift, pop
Unshift(list, e) == << e >> \o list
\* (PopFirst: Pop, were the first element removed, as shift() does)
PopFirst(list) == Tail(list)
Pop(list) == SubSeq(list, 1, Len(list) - 1)

\* server.ts 92-98: the entry is put first; beyond 50 entries the last goes
AddToHistory(list, e) ==
  LET added == Unshift(list, e)
  IN  IF Len(added) > HistoryLimit THEN Pop(added) ELSE added

\* the variables that no request to the server touches
coreVars ==
  << wf, pc, pageContext, pipelineOk, images, pageAltText, pageTopic, fuelUsed,
     candidates, tasks, scoredCandidates, imageResult, result, thrown,
     fuelSpent, vmErr, html, text, limit, settled, call, outcome, summary,
     batteries, invocations >>

ServerInit ==
  /\ wf = "server"
  /\ pc = "listening"
  /\ pageContext = NoContext
  /\ pipelineOk = FALSE
  /\ images = <<>>
  /\ pageAltText = Undef
  /\ pageTopic = Undef
  /\ fuelUsed = UndefNum
  /\ candidates = <<>>
  /\ tasks = <<>>
  /\ scoredCandidates = <<>>
  /\ imageResult = NoImageResult
  /\ result = NoResult
  /\ thrown = ""
  /\ fuelSpent = [page |-> 0, image |-> 0, desc |-> 0]
  /\ vmErr = [page |-> "", image |-> "", desc |-> ""]
  /\ html = Undef
  /\ text = Undef
  /\ limit = MaxCandidates
  /\ settled = [fetch |-> <<>>, score |-> <<>>]
  /\ call = NoCall
  /\ outcome = NoOutcome
  /\ summary = NoSummary
  /\ queryHistory = NoHistory
  /\ inFlight = 0
  /\ batteries = Batteries
  /\ invocations = <<>>

\* server.ts 58-80: a POST /api/process is taken up to its await
ProcessArrives ==
  /\ inFlight < MaxInFlight
  /\ inFlight' = inFlight + 1
  /\ UNCHANGED << queryHistory, coreVars >>

\* server.ts 63-71, 103-111: the request is answered 400 (no URL) or 500
\* (the generation threw); nothing is added
ProcessFails ==
  /\ inFlight > 0
  /\ inFlight' = inFlight - 1
  /\ UNCHANGED << queryHistory, coreVars >>

\* server.ts 82-102: the generation returned; the entry is added and the
\* request answered, with no await in between
ProcessCompletes ==
  /\ inFlight > 0
  /\ queryHistory.added < MaxAdded
  /\ queryHistory' =
       [entries |-> AddToHistory(queryHistory.entries, queryHistory.added + 1),
        added |-> queryHistory.added + 1]
  /\ inFlight' = inFlight - 1
  /\ UNCHANGED coreVars

\* server.ts 49-55: DELETE /api/history
ClearHistory ==
  /\ queryHistory' = [queryHistory EXCEPT !.entries = <<>>]
  /\ UNCHANGED << inFlight, coreVars >>

ServerNext ==
  \/ ProcessArrives
  \/ ProcessFails
  \/ ProcessCompletes
  \/ ClearHistory

ServerSpec == ServerInit /\ [][ServerNext]_vars

NewestFirst(list) ==
  \A i, j \in 1..Len(list) : i < j => list[i] > list[j]

\* C24: after any sequence of process and clear-history requests the history
\* holds at most 50 entries, an entry added later is before every entry
\* added earlier, and an entry added to 50 entries removes the oldest of
\* them, the last.
C24_HistoryBoundedNewestFirst ==
  [][ /\ Len(queryHistory'.entries) <= 50
      /\ NewestFirst(queryHistory'.entries)
      /\ (Len(queryHistory.entries) = 50 /\ queryHistory'.added # queryHistory.added)
           => queryHistory'.entries =
                << queryHistory'.added >> \o SubSeq(queryHistory.entries, 1, 49) ]_vars

C24_Witness ==
  /\ Len(queryHistory.entries) = 50
  /\ queryHistory.added = 51
  /\ queryHistory.entries[1] = 51
  /\ queryHistory.entries[50] = 2

\* ---------------------------------------------------- concurrent invocations
\* Invocations of generateCombinedAltText that run at the same time, as the
\* server starts them: each is a call of the async function, with its own
\* locals, and gives way to the others at each await.
MaxInvocations == 2

\* the servers that a request may name (llmUrl of the request body: absent,
\* or a URL with or without /v1), and the pages
NoUrl == [host |-> "", v1 |-> FALSE]
DefaultLlmUrl == [host |-> "192.168.1.61:1234", v1 |-> TRUE]
LlmUrls ==
  { NoUrl, [host |-> "a.test", v1 |-> FALSE], [host |-> "b.test", v1 |-> TRUE] }
PageUrls == {"https://x.test", "https://y.test"}

\* index.ts 2564-2565: llmBaseUrl || default, with /v1 at its end
FinalLlmUrl(llmBaseUrl) ==
  IF llmBaseUrl = NoUrl THEN DefaultLlmUrl ELSE [llmBaseUrl EXCEPT !.v1 = TRUE]

\* what the capabilities give: the page that is at a URL, and the answer of
\* a model server to a page
PageAt(url) == << "page of", url >>
AnswerOf(server, page) == << "answer of", server.host, page >>

\* (CreateOnBatteries: createCustomCapabilities, were the llm capability
\* set on the shared batteries object instead of on a copy of it)
CreateOnBatteries(shared, llmBaseUrl) ==
  [batteries |-> [shared EXCEPT !.llm = llmBaseUrl],
   customCaps |-> [own |-> FALSE, llm |-> llmBaseUrl]]
\* index.ts 2908-2930, 3297: customCaps = { ...batteries }, customCaps.llm
\* calls llmBaseUrl; gives the shared object and the object returned
createCustomCapabilities(shared, llmBaseUrl) ==
  [batteries |-> shared,
   customCaps |-> [own |-> TRUE, llm |-> llmBaseUrl]]

\* the server that the llm capability of a capabilities object calls: its
\* own when the object is a copy, that of the shared object when it is
\* the shared object
LlmOf(caps, shared) == IF caps.own THEN caps.llm ELSE shared.llm

NoCaps == [own |-> TRUE, llm |-> NoUrl]
NewRun(url, llmBaseUrl) ==
  [pc |-> "start", url |-> url, llmBaseUrl |-> llmBaseUrl, caps |-> NoCaps,
   page |-> <<>>, pageAltText |-> <<>>, result |-> <<>>]

ConcurrentInit ==
  /\ wf = "concurrent"
  /\ pc = "listening"
  /\ pageContext = NoContext
  /\ pipelineOk = FALSE
  /\ images = <<>>
  /\ pageAltText = Undef
  /\ pageTopic = Undef
  /\ fuelUsed = UndefNum
  /\ candidates = <<>>
  /\ tasks = <<>>
  /\ scoredCandidates = <<>>
  /\ imageResult = NoImageResult
  /\ result = NoResult
  /\ thrown = ""
  /\ fuelSpent = [page |-> 0, image |-> 0, desc |-> 0]
  /\ vmErr = [page |-> "", image |-> "", desc |-> ""]
  /\ html = Undef
  /\ text = Undef
  /\ limit = MaxCandidates
  /\ settled = [fetch |-> <<>>, score |-> <<>>]
  /\ call = NoCall
  /\ outcome = NoOutcome
  /\ summary = NoSummary
  /\ queryHistory = NoHistory
  /\ inFlight = 0
  /\ batteries = Batteries
  /\ invocations \in [1..MaxInvocations ->
                { NewRun(u, l) : u \in PageUrls, l \in LlmUrls }]

\* the variables that no step of a concurrent invocation touches
sequentialVars ==
  << wf, pc, pageContext, pipelineOk, images, pageAltText, pageTopic, fuelUsed,
     candidates, tasks, scoredCandidates, imageResult, result, thrown,
     fuelSpent, vmErr, html, text, limit, settled, call, outcome, summary,
     queryHistory, inFlight >>

\* index.ts 2464-2574: createVM, the pipeline, the capabilities, up to the
\* await of vm.run
Invoke(r) ==
  /\ invocations[r].pc = "start"
  /\ LET made == createCustomCapabilities(batteries, FinalLlmUrl(invocations[r].llmBaseUrl))
     IN  /\ batteries' = made.batteries
         /\ invocations' = [invocations EXCEPT ![r].caps = made.customCaps, ![r].pc = "created"]
  /\ UNCHANGED sequentialVars

\* the httpFetch step of the run: capabilities.fetch
FetchPage(r) ==
  /\ invocations[r].pc = "created"
  /\ invocations' = [invocations EXCEPT ![r].page = PageAt(invocations[r].url), ![r].pc = "fetched"]
  /\ UNCHANGED << batteries, sequentialVars >>

\* the llmPredictBattery step of the run: capabilities.llm.predict
Summarize(r) ==
  /\ invocations[r].pc = "fetched"
  /\ invocations' = [invocations EXCEPT
               ![r].pageAltText = AnswerOf(LlmOf(invocations[r].caps, batteries), invocations[r].page),
               ![r].pc = "summarized"]
  /\ UNCHANGED << batteries, sequentialVars >>

\* index.ts 2867-2902: the record returned
Return(r) ==
  /\ invocations[r].pc = "summarized"
  /\ invocations' = [invocations EXCEPT
               ![r].result = [url |-> invocations[r].url, pageAltText |-> invocations[r].pageAltText],
               ![r].pc = "done"]
  /\ UNCHANGED << batteries, sequentialVars >>

ConcurrentNext ==
  \E r \in 1..MaxInvocations :
    \/ Invoke(r)
    \/ FetchPage(r)
    \/ Summarize(r)
    \/ Return(r)

ConcurrentSpec == ConcurrentInit /\ [][ConcurrentNext]_vars

\* C25: concurrent invocations share no state: the record that an
\* invocation returns is the one that its own URL and the answers to its own
\* calls give, whatever the other invocations did in between.
C25_InvocationsShareNoState ==
  \A r \in 1..MaxInvocations :
    invocations[r].pc = "done" =>
      invocations[r].result =
        [url |-> invocations[r].url,
         pageAltText |-> AnswerOf(FinalLlmUrl(invocations[r].llmBaseUrl), PageAt(invocations[r].url))]

C25_Witness ==
  /\ invocations[1].pc = "done"
  /\ invocations[2].pc = "fetched"
  /\ invocations[1].llmBaseUrl.host = "a.test"
  /\ invocations[2].llmBaseUrl.host = "b.test"
  /\ invocations[1].result.pageAltText = AnswerOf(invocations[1].caps.llm, PageAt(invocations[1].url))

\* ----------------------------------------------------------------- scoring
ScoreReturned == wf = "scoreTask" /\ pc = "returned"

\* C26: every kind of scoring failure -- no vision capability, a call that
\* throws or times out, content that is not JSON, a response without a
\* usable score -- gives the fallback min(50, area/10000), else
\* min(50, sizeBytes/100000), else 0; a candidate of known area never gets 0
\* from a failed scoring.
C26_EveryScoringFailureFallsBack ==
  (ScoreReturned /\ call.vision.kind \in {"absent", "throw", "badjson", "noscore"})
  => /\ IsStatedFallback(outcome.score, call.img)
     /\ call.img.area # UndefNum => outcome.score # 0

\* ------------------------------------------------------------------- C28
NoRepeat(s) == \A i, j \in DOMAIN s : i # j => s[i] # s[j]

\* C28: no score task settles before every fetch task of the batch has
\* settled (ok or failed); each candidate of the filtered list is fetched at
\* most once and scored at most once, so there are at most maxCandidates
\* fetches and as many scoring calls; and every entry of the scored list
\* records, as the candidate's size and as imageData.size, the number of
\* bytes fetched from the candidate's URL.
C28_BarrierAndBounds ==
  /\ (settled.score # <<>> \/ \E i \in DOMAIN tasks : tasks[i].scored) =>
       /\ \A i \in DOMAIN tasks : tasks[i].fetch \in {"ok", "fail"}
       /\ Len(settled.fetch) = Len(candidates)
  /\ NoRepeat(settled.fetch) /\ NoRepeat(settled.score)
  /\ Range(settled.fetch) \subseteq DOMAIN candidates
  /\ Range(settled.score) \subseteq DOMAIN candidates
  /\ Len(candidates) <= MaxCandidates
  /\ Len(settled.fetch) <= MaxCandidates
  /\ Len(settled.score) <= MaxCandidates
  /\ \A j \in DOMAIN scoredCandidates :
       LET c == scoredCandidates[j]
       IN  /\ c.img.size = BytesAt(c.img.url)
           /\ c.imageData.size = BytesAt(c.img.url)

C28_Witness ==
  /\ Len(images) = 4
  /\ Len(candidates) = MaxCandidates
  /\ Len(settled.fetch) = 3
  /\ \E i \in DOMAIN tasks : tasks[i].fetch = "fail"
  /\ Len(settled.score) = 2
  /\ Len(scoredCandidates) = 2

\* ------------------------------------------------------------------- C29
\* generateImageAltText has selected a winner and is over
ImageWorkflowOver == wf = "image" /\ pc = "done" /\ WinnerSelected

\* altText || img.alt || placeholder, for the winner of the batch
AltTextChain(generated) ==
  IF TruthyStr(generated) THEN generated
  ELSE IF TruthyStr(candidates[EarliestBest].alt)
       THEN candidates[EarliestBest].alt
       ELSE UnableImageAltText

\* C29: once generateImage has selected a winner it returns a record,
\* whatever the vision call that describes the winner does: the record
\* carries the winner's URL, and its altText is the generated text if that is
\* non-empty, else the winner's alt attribute if that is non-empty, else
\* 'Unable to generate alt-text' (after a failed call: the alt attribute or
\* the placeholder), so it is never empty.
C29_DescribeFailureKeepsImage ==
  ImageWorkflowOver =>
    /\ result.returned
    /\ thrown = ""
    /\ result.imageUrl = candidates[EarliestBest].url
    /\ \E o \in DescribeOutcomes :
         /\ o.err = vmErr.desc
         /\ result.imageAltText = AltTextChain(DescribedAltText(o))
    /\ vmErr.desc # "" => result.imageAltText = AltTextChain(UndefStr)
    /\ result.imageAltText \notin {"", UndefStr}

C29_Witness ==
  /\ ImageWorkflowOver
  /\ vmErr.desc = "LLM Error"
  /\ result.returned
  /\ Len(tasks) = 2
  /\ result.imageUrl = "photo.webp"
  /\ candidates[EarliestBest].alt = ""
  /\ result.imageAltText = UnableImageAltText

\* ------------------------------------------------------------------- C30
\* C30: every invocation of generateCombined eventually returns a result
\* record, given that every capability call it issues eventually returns or
\* fails: no failed candidate is waited for and nothing is tried again.
C30_CombinedEventuallyReturns ==
  <>(wf = "combined" /\ pc = "done" /\ result.returned /\ thrown = "")

C30_Witness ==
  /\ wf = "combined"
  /\ pc = "done"
  /\ result.returned
  /\ Len(tasks) = 2
  /\ tasks[1].fetch = "fail"
  /\ tasks[2].fetch = "ok"
  /\ tasks[2].vision = "throw"
  /\ vmErr.desc = "LLM Error"
  /\ result.imageUrl = candidates[2].url

====
